---- MODULE Spec2Model ----
(***************************************************************************)
(* Model of audio-duplicate-finder: pairwise matching and transitive       *)
(* clustering (duplicates.ts), the auto-decision engine in its policy      *)
(* variants (auto-decider.ts), the scan, review, execute and fix-metadata   *)
(* commands (index.ts, reviewer.ts, deleter.ts, metadata-fixer.ts) and     *)
(* the conflict detection / resolution scripts.                            *)
(*                                                                         *)
(* Strings are TLA+ strings; a character is a string of length 1.          *)
(* null is modelled by NullNum for numbers and NullStr for strings.        *)
(***************************************************************************)
EXTENDS Integers, Sequences, FiniteSets, TLC

VARIABLES
    files,       \* the metadata store handed to findDuplicates, in Map insertion order
    config,      \* Config: durationToleranceSeconds, duplicateScoreThreshold
    cmp,         \* the last compareFiles call: [i, j, result], i = 0 before the first
    dupPc,       \* "start" before findDuplicates has returned, "done" after
    dupGroups    \* the DuplicateGroup[] returned by findDuplicates

dupVars == <<files, config, cmp, dupPc, dupGroups>>

VARIABLES
    decisionsFile,  \* data/decisions.json: the Decision list
    conflictsFile,  \* data/conflicts.json: [exists, list]
    resolvedFile,   \* data/decisions-resolved.json: [exists, fresh, decisions]; fresh = the
                    \* resolver was given the full conflict list of the decisions it read
    report,         \* what the verification script printed about resolvedFile: [exists, conflicts]
    applied,        \* decisionsFile is a copy of a resolver output made from a full conflict list
    conPc           \* "review", "detected", "resolved", "verified"

conVars == <<decisionsFile, conflictsFile, resolvedFile, report, applied, conPc>>

VARIABLES
    engGroups,    \* the DuplicateGroup list handed to applyRulesToGroups
    engRules,     \* the DuplicateRules, with the policy variant in use
    engStore,     \* the metadata store, in insertion order
    engExisting,  \* the already-decided set (group ids)
    engResult,    \* what the run returned
    engRerun,     \* what a second run on the same input returned
    engPc         \* "start", "done", "again"

engVars == <<engGroups, engRules, engStore, engExisting, engResult, engRerun, engPc>>

VARIABLES
    revStore,       \* data/scan-results: the records scanned so far, in scan order
    revDuplicates,  \* data/duplicates.json: [exists, groups]
    revDecisions,   \* data/decisions.json: the Decision list
    revPc,          \* "idle", or "manual" while reviewDuplicates waits for an answer
    revAll,         \* runReview's allDecisions while the manual review runs
    revGroups,      \* the manualGroups handed to reviewDuplicates
    revSession,     \* reviewDuplicates' decisions list
    revReviews,     \* runs of the review command so far
    revAnswers      \* answers given in the current manual review

revVars == <<revStore, revDuplicates, revDecisions, revPc, revAll, revGroups, revSession,
             revReviews, revAnswers>>

\* the execute command: runExecute, executeDecisions and deleteFile
VARIABLES
    exDecisions,    \* the decisions file runExecute reads
    exPc,           \* position of the execute command
    exPrompts,      \* the prompts answered so far, in order
    exEntries,      \* the entries executeDecisions has pushed
    exCalls,        \* the calls of trash and unlink made so far, in order
    exLog           \* the deletion log file this run has written

exVars == <<exDecisions, exPc, exPrompts, exEntries, exCalls, exLog>>

\* the scan command: runScan with its checkpoints
VARIABLES
    scResults,    \* the results file, one path per record appended
    scStateFile,  \* the scan state file
    scPc,         \* position of the scan command
    scMem,        \* what the running scan holds in memory
    scRuns        \* scan commands started so far

scVars == <<scResults, scStateFile, scPc, scMem, scRuns>>

\* the loader of the metadata store: loadScannedFiles
VARIABLES
    ldLines,  \* the lines of the results file
    ldFiles,  \* the Map loadScannedFiles returns
    ldPc      \* whether the loader has run

ldVars == <<ldLines, ldFiles, ldPc>>

\* executeDecisions with consolidation: copy the kept files, then delete
VARIABLES
    cxDecisions,  \* the decisions executeDecisions is called with
    cxDisk,       \* the files on disk, path to content
    cxCopies,     \* the copy log entries pushed so far
    cxDeletions,  \* the deletion log entries pushed so far
    cxPc          \* position of executeDecisions

cxVars == <<cxDecisions, cxDisk, cxCopies, cxDeletions, cxPc>>

\* the fix-metadata command
VARIABLES
    fxScan,        \* the scan results file: [path, missing] per record, missing = no artist or no title
    fxStateFile,   \* data/.fix-state.json: [exists, lastProcessedIndex]
    fxPc,          \* position of runFixMetadata: idle, resume (the resume question) or prompt
    fxList,        \* filesWithMissing of the current run
    fxI,           \* the loop index i of fixMetadataInteractive
    fxLast,        \* state.lastProcessedIndex
    fxUpdated,     \* updatedFiles: path to the missing flag of the updated record
    fxShown,       \* the files presented in the current run, in order
    fxDone,        \* the files answered with skip or an edit since the last fresh start
    fxDoneBefore,  \* fxDone when the current run started
    fxQuitAt,      \* the file at which the user quit the run before, if any
    fxResumed,     \* the current run resumed the saved state
    fxRuns         \* runs of the command so far

fxVars == <<fxScan, fxStateFile, fxPc, fxList, fxI, fxLast, fxUpdated, fxShown, fxDone, fxDoneBefore, fxQuitAt, fxResumed, fxRuns>>

\* the prefetching loop of fixMetadataInteractive
VARIABLES
    pfStart,         \* startIndex, the saved lastProcessedIndex or 0
    pfFetcherIndex,  \* fetcherIndex of the prefetcher
    pfInFlight,      \* the keys of inFlight
    pfOwn,           \* the loop's own fetchFile call is pending
    pfFetched,       \* fetchedResults: index to result
    pfI,             \* the loop index i
    pfPc,            \* position of the loop: start, waiting, analyzing, prompt, writing or done
    pfShown,         \* the prompts shown so far: [index, result]
    pfStarted        \* the indexes the prefetcher has called fetchFile for, in order

pfVars == <<pfStart, pfFetcherIndex, pfInFlight, pfOwn, pfFetched, pfI, pfPc, pfShown, pfStarted>>

\* the background-batch loop of fixMetadataInteractive
VARIABLES
    bgStart,      \* startIndex, the saved lastProcessedIndex or 0
    bgPc,         \* position: start, first-batch, polling, prompt, writing, joining, done or crashed
    bgI,          \* the loop index i
    bgResults,    \* inferredResults: index to the source of the result
    bgPending,    \* the batches whose inferMetadataBatch call is pending
    bgCompleted,  \* completedBatches
    bgShown       \* the prompts shown so far: [index, source]

bgVars == <<bgStart, bgPc, bgI, bgResults, bgPending, bgCompleted, bgShown>>

vars == <<dupVars, conVars, engVars, revVars, exVars, scVars, ldVars, cxVars, fxVars, pfVars, bgVars>>

notDup == <<conVars, engVars, revVars, exVars, scVars, ldVars, cxVars, fxVars, pfVars, bgVars>>
notCon == <<dupVars, engVars, revVars, exVars, scVars, ldVars, cxVars, fxVars, pfVars, bgVars>>
notEng == <<dupVars, conVars, revVars, exVars, scVars, ldVars, cxVars, fxVars, pfVars, bgVars>>
notRev == <<dupVars, conVars, engVars, exVars, scVars, ldVars, cxVars, fxVars, pfVars, bgVars>>
notEx == <<dupVars, conVars, engVars, revVars, scVars, ldVars, cxVars, fxVars, pfVars, bgVars>>
notSc == <<dupVars, conVars, engVars, revVars, exVars, ldVars, cxVars, fxVars, pfVars, bgVars>>
notLd == <<dupVars, conVars, engVars, revVars, exVars, scVars, cxVars, fxVars, pfVars, bgVars>>
notCx == <<dupVars, conVars, engVars, revVars, exVars, scVars, ldVars, fxVars, pfVars, bgVars>>
notFx == <<dupVars, conVars, engVars, revVars, exVars, scVars, ldVars, cxVars, pfVars, bgVars>>
notPf == <<dupVars, conVars, engVars, revVars, exVars, scVars, ldVars, cxVars, fxVars, bgVars>>
notBg == <<dupVars, conVars, engVars, revVars, exVars, scVars, ldVars, cxVars, fxVars, pfVars>>

NullNum == -1
NullStr == "<null>"
None == "<none>"

----------------------------------------------------------------------------
(* Generic sequence helpers                                                *)

Range(s) == {s[i] : i \in 1..Len(s)}

Contains(s, x) == \E i \in 1..Len(s) : s[i] = x

RECURSIVE FilterOut(_, _)
FilterOut(s, x) ==
    IF s = <<>> THEN <<>>
    ELSE IF Head(s) = x THEN FilterOut(Tail(s), x)
    ELSE <<Head(s)>> \o FilterOut(Tail(s), x)

IndexOf(s, x) == IF Contains(s, x) THEN CHOOSE i \in 1..Len(s) : s[i] = x /\ \A j \in 1..(i-1) : s[j] # x ELSE 0

Max2(a, b) == IF a >= b THEN a ELSE b
Min2(a, b) == IF a <= b THEN a ELSE b
Abs(n) == IF n < 0 THEN 0 - n ELSE n

----------------------------------------------------------------------------
(* Character classes and string primitives of the JavaScript runtime       *)

UpperChars == "ABCDEFGHIJKLMNOPQRSTUVWXYZ"
LowerChars == "abcdefghijklmnopqrstuvwxyz"
DigitChars == "0123456789"

CharAt(s, i) == SubSeq(s, i, i)

CharsOf(s) == {CharAt(s, i) : i \in 1..Len(s)}

UpperSet == CharsOf(UpperChars)
LowerSet == CharsOf(LowerChars)
DigitSet == CharsOf(DigitChars)
WordSet == UpperSet \cup LowerSet \cup DigitSet \cup {"_"}

LowerOf == [c \in UpperSet |-> CharAt(LowerChars, CHOOSE i \in 1..Len(UpperChars) : CharAt(UpperChars, i) = c)]

IsDigit(c) == c \in DigitSet
IsSpace(c) == c = " "
IsWord(c) == c \in WordSet

LowerChar(c) == IF c \in UpperSet THEN LowerOf[c] ELSE c

RECURSIVE toLowerCase(_)
toLowerCase(s) ==
    IF Len(s) = 0 THEN "" ELSE LowerChar(Head(s)) \o toLowerCase(Tail(s))

startsWith(s, prefix) ==
    Len(prefix) <= Len(s) /\ SubSeq(s, 1, Len(prefix)) = prefix

endsWith(s, suffix) ==
    Len(suffix) <= Len(s) /\ SubSeq(s, Len(s) - Len(suffix) + 1, Len(s)) = suffix

\* String.prototype.indexOf from position i (1-based); 0 when absent
RECURSIVE indexOfFrom(_, _, _)
indexOfFrom(s, sub, i) ==
    IF i + Len(sub) - 1 > Len(s) THEN 0
    ELSE IF SubSeq(s, i, i + Len(sub) - 1) = sub THEN i
    ELSE indexOfFrom(s, sub, i + 1)

includes(s, sub) == indexOfFrom(s, sub, 1) > 0

RECURSIVE LastPosOf(_, _, _)
LastPosOf(c, s, i) ==
    IF i < 1 THEN 0
    ELSE IF CharAt(s, i) = c THEN i
    ELSE LastPosOf(c, s, i - 1)

RECURSIVE trimStart(_)
trimStart(s) == IF Len(s) > 0 /\ IsSpace(Head(s)) THEN trimStart(Tail(s)) ELSE s

RECURSIVE trimEnd(_)
trimEnd(s) ==
    IF Len(s) > 0 /\ IsSpace(CharAt(s, Len(s))) THEN trimEnd(SubSeq(s, 1, Len(s) - 1)) ELSE s

trim(s) == trimEnd(trimStart(s))

\* path.split('/').filter(Boolean)
RECURSIVE SplitSegments(_, _)
SplitSegments(s, cur) ==
    IF Len(s) = 0 THEN (IF cur = "" THEN <<>> ELSE <<cur>>)
    ELSE IF Head(s) = "/"
         THEN (IF cur = "" THEN <<>> ELSE <<cur>>) \o SplitSegments(Tail(s), "")
         ELSE SplitSegments(Tail(s), cur \o Head(s))


\* Array.prototype.sort with a comparator that orders by a numeric key,
\* descending; the sort is stable, so equal keys keep their original order.
\* key is a sequence of numbers parallel to items.  Returns the sorted indices.
FirstMaxIndex(key, idxs) ==
    CHOOSE i \in idxs :
        /\ \A j \in idxs : key[j] <= key[i]
        /\ \A j \in idxs : key[j] = key[i] => i <= j

RECURSIVE SortIndicesDesc(_, _)
SortIndicesDesc(key, idxs) ==
    IF idxs = {} THEN <<>>
    ELSE LET i == FirstMaxIndex(key, idxs)
         IN <<i>> \o SortIndicesDesc(key, idxs \ {i})

StableSortDesc(items, key) ==
    LET order == SortIndicesDesc(key, 1..Len(items))
    IN [k \in 1..Len(items) |-> items[order[k]]]

----------------------------------------------------------------------------
(* duplicates.ts: string normalisation                                     *)

RECURSIVE StripNonWordSpace(_)
StripNonWordSpace(s) ==
    IF Len(s) = 0 THEN ""
    ELSE IF IsWord(Head(s)) \/ IsSpace(Head(s))
         THEN Head(s) \o StripNonWordSpace(Tail(s))
         ELSE StripNonWordSpace(Tail(s))

RECURSIVE CollapseSpaces(_)
CollapseSpaces(s) ==
    IF Len(s) = 0 THEN ""
    ELSE IF IsSpace(Head(s))
         THEN " " \o CollapseSpaces(trimStart(s))
         ELSE Head(s) \o CollapseSpaces(Tail(s))

normalizeString(str) ==
    trim(CollapseSpaces(StripNonWordSpace(toLowerCase(str))))

\* replace(/\.[^.]+$/, '')
StripExtension(s) ==
    LET d == LastPosOf(".", s, Len(s))
    IN IF d > 0 /\ d < Len(s) THEN SubSeq(s, 1, d - 1) ELSE s

RECURSIVE DigitRun(_, _)
DigitRun(s, i) ==
    IF i <= Len(s) /\ IsDigit(CharAt(s, i)) THEN 1 + DigitRun(s, i + 1) ELSE 0

IsTrackSep(c) == c = "." \/ c = "-" \/ IsSpace(c) \/ c = "_"

\* replace(/^(\d{1,3}[\.\-\s_])+/, '')
RECURSIVE StripLeadingTrackNumbers(_)
StripLeadingTrackNumbers(s) ==
    LET n == DigitRun(s, 1)
    IN IF n >= 1 /\ n <= 3 /\ n + 1 <= Len(s) /\ IsTrackSep(CharAt(s, n + 1))
       THEN StripLeadingTrackNumbers(SubSeq(s, n + 2, Len(s)))
       ELSE s

RECURSIVE DigitRunBack(_, _)
DigitRunBack(s, i) ==
    IF i >= 1 /\ IsDigit(CharAt(s, i)) THEN 1 + DigitRunBack(s, i - 1) ELSE 0

\* replace(/\(\d+\)$/, '') and replace(/\[\d+\]$/, '')
StripTrailingNumbered(s, open, close) ==
    LET n == DigitRunBack(s, Len(s) - 1)
    IN IF Len(s) >= 3 /\ CharAt(s, Len(s)) = close /\ n >= 1
          /\ Len(s) - 1 - n >= 1 /\ CharAt(s, Len(s) - 1 - n) = open
       THEN SubSeq(s, 1, Len(s) - 2 - n)
       ELSE s

\* \b before position i and \b after position j of s
BoundaryBefore(s, i) == i = 1 \/ ~IsWord(CharAt(s, i - 1))
BoundaryAfter(s, j) == j = Len(s) \/ ~IsWord(CharAt(s, j + 1))

\* length of a match of /\b\d{3,4}k(bps)?\b/i at position i, 0 if none
KbpsMatchLen(s, i) ==
    LET n == DigitRun(s, i)
        k == i + n
    IN IF ~(i <= Len(s) /\ IsDigit(CharAt(s, i)) /\ BoundaryBefore(s, i)) THEN 0
       ELSE IF ~(n \in {3, 4} /\ k <= Len(s) /\ toLowerCase(CharAt(s, k)) = "k") THEN 0
       ELSE IF k + 3 <= Len(s) /\ toLowerCase(SubSeq(s, k + 1, k + 3)) = "bps"
               /\ BoundaryAfter(s, k + 3) THEN n + 4
       ELSE IF BoundaryAfter(s, k) THEN n + 1
       ELSE 0

\* length of a match of /\b(128|192|256|320)\b/ at position i, 0 if none
BitrateMatchLen(s, i) ==
    IF i + 2 <= Len(s) /\ SubSeq(s, i, i + 2) \in {"128", "192", "256", "320"}
       /\ BoundaryBefore(s, i) /\ BoundaryAfter(s, i + 2)
    THEN 3 ELSE 0

\* length of a match of /\[.*?\]/ or /\(.*?\)/ at position i, 0 if none
EnclosedMatchLen(s, i, open, close) ==
    IF i <= Len(s) /\ CharAt(s, i) = open
    THEN LET c == indexOfFrom(s, close, i + 1)
         IN IF c > 0 THEN c - i + 1 ELSE 0
    ELSE 0

MatchLen(kind, s, i) ==
    CASE kind = "kbps" -> KbpsMatchLen(s, i)
      [] kind = "bitrate" -> BitrateMatchLen(s, i)
      [] kind = "square" -> EnclosedMatchLen(s, i, "[", "]")
      [] kind = "round" -> EnclosedMatchLen(s, i, "(", ")")

\* String.prototype.replace(<global regex>, '')
RECURSIVE RemoveAll(_, _, _)
RemoveAll(kind, s, i) ==
    IF i > Len(s) THEN ""
    ELSE LET n == MatchLen(kind, s, i)
         IN IF n > 0 THEN RemoveAll(kind, s, i + n)
            ELSE CharAt(s, i) \o RemoveAll(kind, s, i + 1)

normalizeFilename(filename) ==
    LET n1 == StripExtension(filename)
        n2 == StripLeadingTrackNumbers(n1)
        n3 == StripTrailingNumbered(n2, "(", ")")
        n4 == StripTrailingNumbered(n3, "[", "]")
        n5 == RemoveAll("kbps", n4, 1)
        n6 == RemoveAll("bitrate", n5, 1)
        n7 == RemoveAll("square", n6, 1)
        n8 == RemoveAll("round", n7, 1)
    IN normalizeString(n8)

\* the separators of parseFilenameForComparison; the en dash and em dash
\* separators are left out, file names of the model are ASCII
Separators == <<" - ", "_-_", " _ ">>

RECURSIVE ParseWithSeparators(_, _)
ParseWithSeparators(withoutExt, seps) ==
    IF seps = <<>> THEN [artist |-> NullStr, title |-> NullStr]
    ELSE LET sep == Head(seps)
             index == indexOfFrom(withoutExt, sep, 1)
         IN IF index = 0 THEN ParseWithSeparators(withoutExt, Tail(seps))
            ELSE [artist |-> trim(SubSeq(withoutExt, 1, index - 1)),
                  title |-> trim(SubSeq(withoutExt, index + Len(sep), Len(withoutExt)))]

parseFilenameForComparison(filename) ==
    ParseWithSeparators(StripExtension(filename), Separators)

\* fast-levenshtein: edit distance, computed row by row
RECURSIVE LevCell(_, _, _, _, _, _)
LevCell(a, b, i, j, prev, left) ==
    IF j > Len(b) THEN <<>>
    ELSE LET cost == IF CharAt(a, i) = CharAt(b, j) THEN 0 ELSE 1
             v == Min2(Min2(prev[j + 1] + 1, left + 1), prev[j] + cost)
         IN <<v>> \o LevCell(a, b, i, j + 1, prev, v)

RECURSIVE LevRows(_, _, _, _)
LevRows(a, b, i, prev) ==
    IF i > Len(a) THEN prev[Len(b) + 1]
    ELSE LevRows(a, b, i + 1, <<i>> \o LevCell(a, b, i, 1, prev, i))

levenshtein(a, b) == LevRows(a, b, 1, [j \in 1..(Len(b) + 1) |-> j - 1])


----------------------------------------------------------------------------
(* duplicates.ts: pairwise matcher                                         *)

Truthy(str) == str # NullStr /\ str # ""

\* mutant: the difference is taken without Math.abs
checkDurationMatchSigned(a, b, tolerance) ==
    IF a.duration = NullNum \/ b.duration = NullNum THEN FALSE
    ELSE a.duration - b.duration <= tolerance

\* mutant: a difference equal to the tolerance is not a match
checkDurationMatchStrict(a, b, tolerance) ==
    IF a.duration = NullNum \/ b.duration = NullNum THEN FALSE
    ELSE Abs(a.duration - b.duration) < tolerance

checkDurationMatch(a, b, tolerance) ==
    IF a.duration = NullNum \/ b.duration = NullNum THEN FALSE
    ELSE Abs(a.duration - b.duration) <= tolerance

checkArtistTitleMatch(a, b) ==
    IF ~Truthy(a.artist) \/ ~Truthy(b.artist) \/ ~Truthy(a.title) \/ ~Truthy(b.title) THEN FALSE
    ELSE /\ normalizeString(a.artist) = normalizeString(b.artist)
         /\ normalizeString(a.title) = normalizeString(b.title)

FilenameMatch(parsedA, parsedB, normalizedA, normalizedB) ==
    IF /\ Truthy(parsedA.artist) /\ Truthy(parsedB.artist)
       /\ Truthy(parsedA.title) /\ Truthy(parsedB.title)
       /\ normalizeString(parsedA.artist) = normalizeString(parsedB.artist)
       /\ normalizeString(parsedA.title) = normalizeString(parsedB.title)
    THEN TRUE
    ELSE IF normalizedA = normalizedB THEN TRUE
    ELSE IF Max2(Len(normalizedA), Len(normalizedB)) = 0 THEN FALSE
    \* 1 - distance / maxLen >= 0.8
    ELSE 5 * levenshtein(normalizedA, normalizedB) <= Max2(Len(normalizedA), Len(normalizedB))

checkFilenameMatch(a, b) ==
    FilenameMatch(parseFilenameForComparison(a.filename), parseFilenameForComparison(b.filename),
                  normalizeFilename(a.filename), normalizeFilename(b.filename))

checkAlbumMatch(a, b) ==
    IF ~Truthy(a.album) \/ ~Truthy(b.album) THEN FALSE
    ELSE normalizeString(a.album) = normalizeString(b.album)

RootOfParts(path, parts) ==
    IF Len(parts) < 2 THEN path
    ELSE IF parts[1] = "Volumes" /\ Len(parts) >= 2 THEN "/" \o parts[1] \o "/" \o parts[2]
    ELSE IF parts[1] = "Users" /\ Len(parts) >= 3
         THEN "/" \o parts[1] \o "/" \o parts[2] \o "/" \o parts[3]
    ELSE "/" \o parts[1]

getRootFolder(path) == RootOfParts(path, SplitSegments(path, ""))

checkDifferentLocation(a, b) == getRootFolder(a.path) # getRootFolder(b.path)

\* score and reasons accumulated over the five signals, in the order of the code
MatchResult(durationMatch, artistTitleMatch, filenameMatch, albumMatch, differentLocation) ==
    [score |-> (IF durationMatch THEN 40 ELSE 0) + (IF artistTitleMatch THEN 30 ELSE 0)
               + (IF filenameMatch THEN 20 ELSE 0) + (IF albumMatch THEN 10 ELSE 0)
               + (IF differentLocation THEN 10 ELSE 0),
     reasons |-> (IF durationMatch THEN <<"duration">> ELSE <<>>)
                 \o (IF artistTitleMatch THEN <<"artist+title">> ELSE <<>>)
                 \o (IF filenameMatch THEN <<"filename">> ELSE <<>>)
                 \o (IF albumMatch THEN <<"album">> ELSE <<>>)
                 \o (IF differentLocation THEN <<"different-location">> ELSE <<>>)]

compareFiles(a, b, cfg) ==
    MatchResult(checkDurationMatch(a, b, cfg.durationToleranceSeconds),
                checkArtistTitleMatch(a, b),
                checkFilenameMatch(a, b),
                checkAlbumMatch(a, b),
                checkDifferentLocation(a, b))

----------------------------------------------------------------------------
(* duplicates.ts: cluster builder                                          *)

\* A Map<string, Set<string>> in insertion order: keys is the key order,
\* nbrs[k] the members of the set of key k in insertion order.
EmptyMatches == [keys |-> <<>>, nbrs |-> <<>>]

MatchesHas(m, k) == Contains(m.keys, k)

MatchesGet(m, k) == m.nbrs[IndexOf(m.keys, k)]

MatchesEnsure(m, k) ==
    IF MatchesHas(m, k) THEN m
    ELSE [keys |-> Append(m.keys, k), nbrs |-> Append(m.nbrs, <<>>)]

MatchesAdd(m, k, v) ==
    LET i == IndexOf(m.keys, k)
    IN IF Contains(m.nbrs[i], v) THEN m
       ELSE [m EXCEPT !.nbrs[i] = Append(@, v)]

\* mutant: the pair is recorded whatever its score
RecordMatchAnyScore(m, fileList, i, j, cfg) ==
    LET pathA == fileList[i].path
        pathB == fileList[j].path
        m2 == MatchesEnsure(MatchesEnsure(m, pathA), pathB)
    IN MatchesAdd(MatchesAdd(m2, pathA, pathB), pathB, pathA)

\* the body of the double loop of findDuplicates for the pair (i, j)
RecordMatch(m, fileList, i, j, cfg) ==
    IF compareFiles(fileList[i], fileList[j], cfg).score < cfg.duplicateScoreThreshold THEN m
    ELSE LET pathA == fileList[i].path
             pathB == fileList[j].path
             m2 == MatchesEnsure(MatchesEnsure(m, pathA), pathB)
         IN MatchesAdd(MatchesAdd(m2, pathA, pathB), pathB, pathA)

\* the double loop of findDuplicates; st holds the table and the two indices
RECURSIVE MatchLoop(_, _, _)
MatchLoop(st, fileList, cfg) ==
    IF st.i > Len(fileList) THEN st.m
    ELSE IF st.j > Len(fileList)
         THEN MatchLoop([st EXCEPT !.i = st.i + 1, !.j = st.i + 2], fileList, cfg)
    ELSE MatchLoop([st EXCEPT !.m = RecordMatch(st.m, fileList, st.i, st.j, cfg), !.j = st.j + 1],
                   fileList, cfg)

BuildMatches(m, fileList, i, j, cfg) == MatchLoop([m |-> m, i |-> i, j |-> j], fileList, cfg)

RECURSIVE PushUnvisited(_, _, _)
PushUnvisited(queue, neighbors, visited) ==
    IF neighbors = <<>> THEN queue
    ELSE IF Head(neighbors) \in visited THEN PushUnvisited(queue, Tail(neighbors), visited)
    ELSE PushUnvisited(Append(queue, Head(neighbors)), Tail(neighbors), visited)

\* mutant: only the neighbours of the start file are queued
RECURSIVE TraverseDirectOnly(_, _, _, _)
TraverseDirectOnly(matches, queue, visited, cluster) ==
    IF queue = <<>> THEN [visited |-> visited, cluster |-> cluster]
    ELSE LET current == Head(queue)
         IN IF current \in visited THEN TraverseDirectOnly(matches, Tail(queue), visited, cluster)
            ELSE LET visited2 == visited \cup {current}
                     neighbors == IF cluster = <<>> /\ MatchesHas(matches, current)
                                  THEN MatchesGet(matches, current) ELSE <<>>
                 IN TraverseDirectOnly(matches, PushUnvisited(Tail(queue), neighbors, visited2),
                                       visited2, Append(cluster, current))

\* the while loop of buildTransitiveClusters; returns [visited, cluster]
RECURSIVE Traverse(_, _, _, _)
Traverse(matches, queue, visited, cluster) ==
    IF queue = <<>> THEN [visited |-> visited, cluster |-> cluster]
    ELSE LET current == Head(queue)
         IN IF current \in visited THEN Traverse(matches, Tail(queue), visited, cluster)
            ELSE LET visited2 == visited \cup {current}
                     neighbors == IF MatchesHas(matches, current)
                                  THEN MatchesGet(matches, current) ELSE <<>>
                 IN Traverse(matches, PushUnvisited(Tail(queue), neighbors, visited2),
                             visited2, Append(cluster, current))

RECURSIVE ClustersFrom(_, _, _)
ClustersFrom(matches, keys, visited) ==
    IF keys = <<>> THEN <<>>
    ELSE IF Head(keys) \in visited THEN ClustersFrom(matches, Tail(keys), visited)
    ELSE LET r == Traverse(matches, <<Head(keys)>>, visited, <<>>)
             rest == ClustersFrom(matches, Tail(keys), r.visited)
         IN IF Len(r.cluster) > 1 THEN <<r.cluster>> \o rest ELSE rest

buildTransitiveClusters(matches) == ClustersFrom(matches, matches.keys, {})

\* files.get(path) on the store handed to findDuplicates
HasFile(fileList, path) == \E i \in 1..Len(fileList) : fileList[i].path = path
GetFile(fileList, path) == fileList[CHOOSE i \in 1..Len(fileList) : fileList[i].path = path]

\* the pairs (i, j), i < j, of a group whose two files are in the store
GroupPairs(groupFiles, fileList) ==
    {p \in (1..Len(groupFiles)) \X (1..Len(groupFiles)) :
        p[1] < p[2] /\ HasFile(fileList, groupFiles[p[1]]) /\ HasFile(fileList, groupFiles[p[2]])}

PairResult(groupFiles, fileList, p, cfg) ==
    compareFiles(GetFile(fileList, groupFiles[p[1]]), GetFile(fileList, groupFiles[p[2]]), cfg)

RECURSIVE SumScores(_, _, _, _)
SumScores(pairs, groupFiles, fileList, cfg) ==
    IF pairs = {} THEN 0
    ELSE LET p == CHOOSE q \in pairs : TRUE
         IN PairResult(groupFiles, fileList, p, cfg).score
            + SumScores(pairs \ {p}, groupFiles, fileList, cfg)

\* Math.round of the non-negative quotient n / d
RoundDiv(n, d) == (2 * n + d) \div (2 * d)

calculateGroupConfidence(groupFiles, fileList, cfg) ==
    LET pairs == GroupPairs(groupFiles, fileList)
        comparisons == Cardinality(pairs)
    IN IF comparisons = 0 THEN 0
       ELSE RoundDiv(SumScores(pairs, groupFiles, fileList, cfg), comparisons)


\* the (i, j) of the double loop over a group, in loop order
RECURSIVE PairSeq(_, _, _)
PairSeq(n, i, j) ==
    IF i > n THEN <<>>
    ELSE IF j > n THEN PairSeq(n, i + 1, i + 2)
    ELSE <<<<i, j>>>> \o PairSeq(n, i, j + 1)

RECURSIVE AddAll(_, _)
AddAll(set, xs) ==
    IF xs = <<>> THEN set
    ELSE AddAll(IF Contains(set, Head(xs)) THEN set ELSE Append(set, Head(xs)), Tail(xs))

RECURSIVE CollectReasons(_, _, _, _, _)
CollectReasons(pairs, groupFiles, fileList, cfg, allReasons) ==
    IF pairs = <<>> THEN allReasons
    ELSE LET p == Head(pairs)
         IN IF ~HasFile(fileList, groupFiles[p[1]]) \/ ~HasFile(fileList, groupFiles[p[2]])
            THEN CollectReasons(Tail(pairs), groupFiles, fileList, cfg, allReasons)
            ELSE CollectReasons(Tail(pairs), groupFiles, fileList, cfg,
                                AddAll(allReasons, PairResult(groupFiles, fileList, p, cfg).reasons))

collectMatchReasons(groupFiles, fileList, cfg) ==
    CollectReasons(PairSeq(Len(groupFiles), 1, 2), groupFiles, fileList, cfg, <<>>)

----------------------------------------------------------------------------
(* metadata.ts                                                             *)

TruthyNum(n) == n # NullNum /\ n # 0

countFilledTags(m) ==
    (IF Truthy(m.title) THEN 1 ELSE 0) + (IF Truthy(m.artist) THEN 1 ELSE 0)
    + (IF Truthy(m.album) THEN 1 ELSE 0) + (IF TruthyNum(m.year) THEN 1 ELSE 0)
    + (IF TruthyNum(m.trackNumber) THEN 1 ELSE 0) + (IF Truthy(m.genre) THEN 1 ELSE 0)

\* getQualityScore, in hundredths (sampleRate / 100 is a fraction)
getQualityScore100(m) ==
    (IF m.lossless THEN 100000 ELSE 0)
    + (IF TruthyNum(m.bitrate) THEN m.bitrate * 100 ELSE 0)
    + (IF TruthyNum(m.sampleRate) THEN m.sampleRate ELSE 0)
    + (IF TruthyNum(m.bitDepth) THEN m.bitDepth * 1000 ELSE 0)

LOSSLESS_FORMATS == {"flac", "wav", "aiff", "aif", "alac", "ape", "wv"}

basename(path) ==
    LET parts == SplitSegments(path, "")
    IN IF parts = <<>> THEN "" ELSE parts[Len(parts)]

\* extname(path).slice(1).toLowerCase()
FormatOf(path) ==
    LET b == basename(path)
        d == LastPosOf(".", b, Len(b))
    IN IF d > 1 THEN toLowerCase(SubSeq(b, d + 1, Len(b))) ELSE ""

\* the record extractMetadata builds for a path, given what the tag reader returns
MakeRecord(path, t) ==
    [path |-> path, filename |-> basename(path), size |-> t.size,
     duration |-> t.duration, bitrate |-> t.bitrate,
     sampleRate |-> t.sampleRate, bitDepth |-> t.bitDepth,
     title |-> t.title, artist |-> t.artist, album |-> t.album,
     year |-> t.year, trackNumber |-> t.trackNumber, genre |-> t.genre,
     format |-> FormatOf(path), lossless |-> FormatOf(path) \in LOSSLESS_FORMATS]

----------------------------------------------------------------------------
(* duplicates.ts: selectBestFile and findDuplicates                        *)

RECURSIVE SelectBest(_, _, _, _)
SelectBest(paths, fileList, bestFile, bestScore100) ==
    IF paths = <<>> THEN bestFile
    ELSE IF ~HasFile(fileList, Head(paths)) THEN SelectBest(Tail(paths), fileList, bestFile, bestScore100)
    ELSE LET metadata == GetFile(fileList, Head(paths))
             combined100 == countFilledTags(metadata) * 100000 + getQualityScore100(metadata)
         IN IF combined100 <= bestScore100
            THEN SelectBest(Tail(paths), fileList, bestFile, bestScore100)
            ELSE SelectBest(Tail(paths), fileList, Head(paths), combined100)

selectBestFile(groupFiles, fileList) == SelectBest(groupFiles, fileList, NullStr, -100)

MakeGroup(cluster, n, fileList, cfg) ==
    [id |-> "group-" \o ToString(n),
     confidence |-> calculateGroupConfidence(cluster, fileList, cfg),
     files |-> cluster,
     matchReasons |-> collectMatchReasons(cluster, fileList, cfg),
     suggestedKeep |-> selectBestFile(cluster, fileList)]

MakeGroups(clusters, fileList, cfg) ==
    [k \in 1..Len(clusters) |-> MakeGroup(clusters[k], k, fileList, cfg)]

\* duplicateGroups.sort((a, b) => b.confidence - a.confidence)
SortByConfidence(groups) ==
    StableSortDesc(groups, [k \in 1..Len(groups) |-> groups[k].confidence])

findDuplicates(fileList, cfg) ==
    SortByConfidence(
        MakeGroups(buildTransitiveClusters(BuildMatches(EmptyMatches, fileList, 1, 2, cfg)),
                   fileList, cfg))

----------------------------------------------------------------------------
(* Conflict verification script (auto-decider.ts, second part)            *)

\* the keys of keepFiles in Map insertion order
RECURSIVE KeptFiles(_, _)
KeptFiles(decs, seen) ==
    IF decs = <<>> THEN seen
    ELSE KeptFiles(Tail(decs), AddAll(seen, Head(decs).keep))

RECURSIVE GroupsWhere(_, _, _)
GroupsWhere(decs, file, role) ==
    IF decs = <<>> THEN <<>>
    ELSE [k \in 1..Cardinality({i \in 1..Len(Head(decs)[role]) : Head(decs)[role][i] = file})
             |-> Head(decs).groupId]
         \o GroupsWhere(Tail(decs), file, role)

\* mutant: one entry for every decision that keeps the file
RECURSIVE ConflictsPerKeep(_, _)
ConflictsPerKeep(decs, keys) ==
    IF keys = <<>> THEN <<>>
    ELSE LET deletedInGroups == GroupsWhere(decs, Head(keys), "delete")
             keptInGroups == GroupsWhere(decs, Head(keys), "keep")
         IN [k \in 1..(IF deletedInGroups = <<>> THEN 0 ELSE Len(keptInGroups)) |->
                [file |-> Head(keys), keptInGroups |-> keptInGroups,
                 deletedInGroups |-> deletedInGroups]]
            \o ConflictsPerKeep(decs, Tail(keys))

\* the loop over keepFiles.entries(): one CONFLICT per kept file that is also deleted
RECURSIVE ConflictsAmong(_, _)
ConflictsAmong(decs, keys) ==
    IF keys = <<>> THEN <<>>
    ELSE (IF GroupsWhere(decs, Head(keys), "delete") = <<>> THEN <<>>
          ELSE <<[file |-> Head(keys),
                  keptInGroups |-> GroupsWhere(decs, Head(keys), "keep"),
                  deletedInGroups |-> GroupsWhere(decs, Head(keys), "delete")]>>)
         \o ConflictsAmong(decs, Tail(keys))

FindConflicts(decs) == ConflictsAmong(decs, KeptFiles(decs, <<>>))

----------------------------------------------------------------------------
(* Conflict resolver script (cache.ts, second part)                       *)

\* filePath.match(/\/Music\/([^/]+)\//): leftmost "/Music/" that is followed
\* by a non-empty segment and another "/"
RECURSIVE MusicFolderFrom(_, _)
MusicFolderFrom(filePath, i) ==
    LET at == indexOfFrom(filePath, "/Music/", i)
    IN IF at = 0 THEN NullStr
       ELSE IF indexOfFrom(filePath, "/", at + 7) > at + 7
            THEN SubSeq(filePath, at + 7, indexOfFrom(filePath, "/", at + 7) - 1)
            ELSE MusicFolderFrom(filePath, at + 1)

SkipGeneric(folder) ==
    IF folder \in {"Music", "Unknown Artist", "Media.localized"} THEN NullStr ELSE folder

extractArtist(filePath) == SkipGeneric(MusicFolderFrom(filePath, 1))

\* filePath.split('/'): empty segments are kept
RECURSIVE SplitRaw(_, _)
SplitRaw(s, cur) ==
    IF s = "" THEN <<cur>>
    ELSE IF Head(s) = "/" THEN <<cur>> \o SplitRaw(Tail(s), "")
    ELSE SplitRaw(Tail(s), cur \o SubSeq(s, 1, 1))

AlbumStructure(parts) ==
    IF Contains(parts, "Music") /\ Len(parts) > (IndexOf(parts, "Music") - 1) + 3 THEN 20 ELSE 0

scoreFile(filePath) ==
      (IF startsWith(filePath, "/Users/aedison/Music/") THEN 100
       ELSE IF startsWith(filePath, "/Users/aedison/Downloads/") THEN 50
       ELSE IF startsWith(filePath, "/Volumes/") THEN 10 ELSE 0)
    - (IF includes(filePath, "Unknown Artist") \/ includes(filePath, "Unknown Album")
       THEN 50 ELSE 0)
    + AlbumStructure(SplitRaw(filePath, ""))
    + (IF endsWith(filePath, ".flac") THEN 200
       ELSE IF endsWith(filePath, ".opus") THEN 150
       ELSE IF endsWith(filePath, ".m4a") THEN 50 ELSE 0)
    - (IF includes(filePath, "mega-unique") THEN 30 ELSE 0)
    - (IF includes(filePath, "Media.localized") THEN 20 ELSE 0)
    - (Len(filePath) \div 20)

Mentions(decision, file) == Contains(decision.keep, file) \/ Contains(decision.delete, file)

\* the files one pass over the decisions pushes for `file`, in push order
RECURSIVE PushedFor(_, _, _)
PushedFor(decs, file, connected) ==
    IF decs = <<>> THEN <<>>
    ELSE (IF Mentions(Head(decs), file)
          THEN SelectSeq(Head(decs).keep \o Head(decs).delete,
                         LAMBDA f : ~Contains(connected, f))
          ELSE <<>>)
         \o PushedFor(Tail(decs), file, connected)

\* the while loop of findConnectedFiles: toProcess is a stack, connected keeps
\* insertion order
RECURSIVE ConnectLoop(_, _, _)
ConnectLoop(toProcess, connected, decs) ==
    IF toProcess = <<>> THEN connected
    ELSE LET file == toProcess[Len(toProcess)]
             rest == SubSeq(toProcess, 1, Len(toProcess) - 1)
         IN IF Contains(connected, file) THEN ConnectLoop(rest, connected, decs)
            ELSE ConnectLoop(rest \o PushedFor(decs, file, Append(connected, file)),
                             Append(connected, file), decs)

findConnectedFiles(startFile, decs) == ConnectLoop(<<startFile>>, <<>>, decs)

RECURSIVE ConnectedGroups(_, _, _)
PushConnected(connected, conflicts, processedFiles, decs) ==
    <<connected>> \o ConnectedGroups(conflicts, processedFiles \cup Range(connected), decs)

ConnectedGroups(conflicts, processedFiles, decs) ==
    IF conflicts = <<>> THEN <<>>
    ELSE IF Head(conflicts).file \in processedFiles
         THEN ConnectedGroups(Tail(conflicts), processedFiles, decs)
         ELSE PushConnected(findConnectedFiles(Head(conflicts).file, decs),
                            Tail(conflicts), processedFiles, decs)

\* the artists Set / the keys of byArtist, in insertion order
RECURSIVE ArtistsOf(_, _)
ArtistsOf(fs, seen) ==
    IF fs = <<>> THEN seen
    ELSE IF extractArtist(Head(fs)) = NullStr \/ Contains(seen, extractArtist(Head(fs)))
         THEN ArtistsOf(Tail(fs), seen)
         ELSE ArtistsOf(Tail(fs), Append(seen, extractArtist(Head(fs))))

\* involvedGroups: every groupId under which fileToDecisions lists one of the files
InvolvedGroups(fs, decs) ==
    {decs[k].groupId : k \in {i \in 1..Len(decs) : \E f \in Range(fs) : Mentions(decs[i], f)}}

ScoredDesc(fs) == StableSortDesc(fs, [k \in 1..Len(fs) |-> scoreFile(fs[k])])

RECURSIVE BestPerArtist(_, _)
BestPerArtist(artists, fs) ==
    IF artists = <<>> THEN <<>>
    ELSE <<ScoredDesc(SelectSeq(fs, LAMBDA f : extractArtist(f) = Head(artists)))[1]>>
         \o BestPerArtist(Tail(artists), fs)

RECURSIVE RestPerArtist(_, _)
RestPerArtist(artists, fs) ==
    IF artists = <<>> THEN <<>>
    ELSE Tail(ScoredDesc(SelectSeq(fs, LAMBDA f : extractArtist(f) = Head(artists))))
         \o RestPerArtist(Tail(artists), fs)

DifferentArtists(artists, fs, involved) ==
    [keep |-> BestPerArtist(artists, fs),
     delete |-> RestPerArtist(artists, fs) \o SelectSeq(fs, LAMBDA f : extractArtist(f) = NullStr),
     involvedGroups |-> involved,
     notDuplicates |-> Len(artists) > 1]

SingleArtist(scored, involved) ==
    [keep |-> <<scored[1]>>, delete |-> Tail(scored),
     involvedGroups |-> involved, notDuplicates |-> FALSE]

ResolveBy(artists, group, involved) ==
    IF Len(artists) > 1 THEN DifferentArtists(artists, group, involved)
    ELSE SingleArtist(ScoredDesc(group), involved)

Resolve(group, decs) == ResolveBy(ArtistsOf(group, <<>>), group, InvolvedGroups(group, decs))

Resolutions(groups, decs) == [k \in 1..Len(groups) |-> Resolve(groups[k], decs)]

RECURSIVE DecimalOf(_)
DecimalOf(n) ==
    IF n < 10 THEN SubSeq(DigitChars, n + 1, n + 1)
    ELSE DecimalOf(n \div 10) \o SubSeq(DigitChars, (n % 10) + 1, (n % 10) + 1)

NewDecision(groupId, keep, delete, notDuplicates, ruleApplied) ==
    [groupId |-> groupId, keep |-> keep, delete |-> delete,
     notDuplicates |-> notDuplicates, decisionType |-> "auto",
     ruleApplied |-> ruleApplied, copyToDestination |-> FALSE]

ConsolidatedFor(resolution, i) ==
    IF resolution.notDuplicates
    THEN [j \in 1..Len(resolution.keep) |->
             NewDecision("resolved-" \o DecimalOf(i) \o "-keep-" \o DecimalOf(j),
                         <<resolution.keep[j]>>, <<>>, TRUE, "different-artists")]
         \o (IF Len(resolution.delete) > 0
             THEN <<NewDecision("resolved-" \o DecimalOf(i) \o "-delete", <<>>,
                                resolution.delete, FALSE, "lower-quality-duplicate")>>
             ELSE <<>>)
    ELSE <<NewDecision("resolved-" \o DecimalOf(i), resolution.keep, resolution.delete,
                       FALSE, "conflict-resolution")>>

RECURSIVE Consolidated(_, _)
Consolidated(resolutions, i) ==
    IF i > Len(resolutions) THEN <<>>
    ELSE ConsolidatedFor(resolutions[i], i) \o Consolidated(resolutions, i + 1)

ConflictedGroupIds(resolutions) ==
    UNION {resolutions[k].involvedGroups : k \in 1..Len(resolutions)}

\* mutant: the conflicted decisions are left in place
KeepConflicted(decs, resolutions) == decs \o Consolidated(resolutions, 1)

CleanedDecisions(decs, resolutions) ==
    SelectSeq(decs, LAMBDA d : d.groupId \notin ConflictedGroupIds(resolutions))
    \o Consolidated(resolutions, 1)

\* mutant: every kept file is treated as a conflict
ResolveEveryFile(decs, conflicts) ==
    CleanedDecisions(decs,
        Resolutions(ConnectedGroups([k \in 1..Len(KeptFiles(decs, <<>>)) |->
                                        [file |-> KeptFiles(decs, <<>>)[k]]], {}, decs), decs))

\* the whole script: data/decisions.json and data/conflicts.json in,
\* data/decisions-resolved.json out
ResolverOutput(decs, conflicts) ==
    CleanedDecisions(decs, Resolutions(ConnectedGroups(conflicts, {}, decs), decs))

----------------------------------------------------------------------------
(* auto-decider.ts: the auto-decision engine and its policy variants      *)

\* group.files.map(getFileMetadata).filter(f => f !== null)
WithMetadata(paths, store) ==
    [k \in 1..Len(SelectSeq(paths, LAMBDA p : HasFile(store, p))) |->
        GetFile(store, SelectSeq(paths, LAMBDA p : HasFile(store, p))[k])]

OrZero(n) == IF n = NullNum THEN 0 ELSE n

SeqMax(ns) == CHOOSE n \in Range(ns) : \A o \in Range(ns) : o <= n
SeqMin(ns) == CHOOSE n \in Range(ns) : \A o \in Range(ns) : n <= o

\* the bitrates above 0 of the group's files
PositiveBitrates(fs) ==
    SelectSeq([k \in 1..Len(fs) |-> OrZero(fs[k].bitrate)], LAMBDA b : b > 0)

\* node:path dirname of a file path (no trailing slash)
dirname(path) ==
    IF LastPosOf("/", path, Len(path)) = 0 THEN "."
    ELSE IF LastPosOf("/", path, Len(path)) = 1 THEN "/"
    ELSE SubSeq(path, 1, LastPosOf("/", path, Len(path)) - 1)

\* the index i of the first priority path holding fileDir, 0 when none does
RECURSIVE PriorityIndex(_, _, _)
PriorityIndex(fileDir, pathPriority, i) ==
    IF i > Len(pathPriority) THEN 0
    ELSE IF fileDir = pathPriority[i] \/ startsWith(fileDir, pathPriority[i] \o "/") THEN i
    ELSE PriorityIndex(fileDir, pathPriority, i + 1)

\* pathPriority.length - i for the 0-based i of the code
PathPosition(file, pathPriority) ==
    IF PriorityIndex(dirname(file.path), pathPriority, 1) = 0 THEN 0
    ELSE Len(pathPriority) - (PriorityIndex(dirname(file.path), pathPriority, 1) - 1)

getMetadataCount(file) ==
    (IF Truthy(file.title) THEN 1 ELSE 0) + (IF Truthy(file.artist) THEN 1 ELSE 0)
    + (IF Truthy(file.album) THEN 1 ELSE 0) + (IF Truthy(file.genre) THEN 1 ELSE 0)
    + (IF file.year # NullNum THEN 1 ELSE 0)

\* The composite score is a sum of fractions of the weights. Every score of a
\* group is kept as an integer over the group's common denominator
\* ScoreDen = 5 * (pathPriority.length or 1) * (maxBitrate - minBitrate or 1).
BitrateSpan(bitrates) ==
    IF bitrates = <<>> \/ SeqMax(bitrates) = SeqMin(bitrates) THEN 1
    ELSE SeqMax(bitrates) - SeqMin(bitrates)

PathDen(pathPriority) == IF pathPriority = <<>> THEN 1 ELSE Len(pathPriority)

ScoreDen(fs, pathPriority) == 5 * PathDen(pathPriority) * BitrateSpan(PositiveBitrates(fs))

calculateLosslessScore(file, weight, den) == IF file.lossless THEN weight * den ELSE 0

calculateBitrateScore(file, bitrates, weight, pathDen) ==
    IF bitrates = <<>> THEN 0
    ELSE IF SeqMax(bitrates) = SeqMin(bitrates) THEN weight * 5 * pathDen
    ELSE (OrZero(file.bitrate) - SeqMin(bitrates)) * weight * 5 * pathDen

calculatePathPriorityScore(file, pathPriority, weight, span) ==
    IF pathPriority = <<>> THEN 0
    ELSE PathPosition(file, pathPriority) * weight * 5 * span

calculateMetadataQualityScore(file, weight, pathDen, span) ==
    getMetadataCount(file) * weight * pathDen * span

calculateFileScore(file, fs, weights, pathPriority) ==
      calculateLosslessScore(file, weights.lossless, ScoreDen(fs, pathPriority))
    + calculateBitrateScore(file, PositiveBitrates(fs), weights.bitrate, PathDen(pathPriority))
    + calculatePathPriorityScore(file, pathPriority, weights.pathPriority,
                                 BitrateSpan(PositiveBitrates(fs)))
    + calculateMetadataQualityScore(file, weights.metadataQuality, PathDen(pathPriority),
                                    BitrateSpan(PositiveBitrates(fs)))

FileScores(fs, rules) ==
    [k \in 1..Len(fs) |-> calculateFileScore(fs[k], fs, rules.weights, rules.pathPriority)]

NeedsManual == [decision |-> NullStr, needsManualReview |-> TRUE]

Decided(decision) == [decision |-> decision, needsManualReview |-> FALSE]

WeightedDecision(group, keepPath) ==
    [groupId |-> group.id, keep |-> <<keepPath>>,
     delete |-> SelectSeq(group.files, LAMBDA p : p # keepPath),
     notDuplicates |-> FALSE, decisionType |-> "auto", ruleApplied |-> "weighted-score"]

\* mutant: the gap is compared with <= instead of <
WeighLoose(group, sortedFiles, sortedScores, thresholdScaled) ==
    IF sortedScores[1] - sortedScores[2] <= thresholdScaled THEN NeedsManual
    ELSE Decided(WeightedDecision(group, sortedFiles[1].path))

\* scores sorted descending, then the gap between the first two
Weigh(group, sortedFiles, sortedScores, thresholdScaled) ==
    IF sortedScores[1] - sortedScores[2] < thresholdScaled THEN NeedsManual
    ELSE Decided(WeightedDecision(group, sortedFiles[1].path))

WeighFiles(group, fs, scores, rules) ==
    Weigh(group, StableSortDesc(fs, scores), StableSortDesc(scores, scores),
          rules.scoreDifferenceThreshold * ScoreDen(fs, rules.pathPriority))

evaluateGroupWeightedOn(group, rules, fs) ==
    IF Len(fs) < 2 THEN NeedsManual
    ELSE IF group.confidence < rules.confidenceThreshold THEN NeedsManual
    ELSE WeighFiles(group, fs, FileScores(fs, rules), rules)

evaluateGroupWeighted(group, rules, store) ==
    evaluateGroupWeightedOn(group, rules, WithMetadata(group.files, store))

\* the key a rule's comparator orders by, larger first
RuleKey(rule, file) ==
    IF rule = "lossless" THEN (IF file.lossless THEN 1 ELSE 0)
    ELSE IF rule = "bitrate" THEN OrZero(file.bitrate)
    ELSE getMetadataCount(file)

RuleKeys(rule, fs) == [k \in 1..Len(fs) |-> RuleKey(rule, fs[k])]

NotApplied == [winner |-> NullStr, applied |-> FALSE]

\* mutant: a rule applies as soon as its best member is at least as good
SeparatesLoose(rule, sorted) ==
    IF RuleKey(rule, sorted[1]) >= RuleKey(rule, sorted[2])
    THEN [winner |-> sorted[1], applied |-> TRUE]
    ELSE NotApplied

\* compareFn(best, second) < 0
Separates(rule, sorted) ==
    IF RuleKey(rule, sorted[1]) > RuleKey(rule, sorted[2])
    THEN [winner |-> sorted[1], applied |-> TRUE]
    ELSE NotApplied

applyRule(rule, fs) == Separates(rule, StableSortDesc(fs, RuleKeys(rule, fs)))

isInDestination(path, destinationDir) ==
    startsWith(path, destinationDir \o "/") \/ startsWith(path, destinationDir)

\* mutant: a tie keeps the last member
TieLast(fs, destinationDir) == [winner |-> fs[Len(fs)], ruleApplied |-> "tie"]

\* files.find(isInDestination), else files[0]
Tie(fs, destinationDir) ==
    IF \E k \in 1..Len(fs) : isInDestination(fs[k].path, destinationDir)
    THEN [winner |-> fs[CHOOSE k \in 1..Len(fs) :
                           /\ isInDestination(fs[k].path, destinationDir)
                           /\ \A j \in 1..(k - 1) : ~isInDestination(fs[j].path, destinationDir)],
          ruleApplied |-> "tie"]
    ELSE [winner |-> fs[1], ruleApplied |-> "tie"]

RECURSIVE findBestFile(_, _, _)
WinnerOrNext(result, fs, ruleOrder, destinationDir) ==
    IF result.applied THEN [winner |-> result.winner, ruleApplied |-> Head(ruleOrder)]
    ELSE findBestFile(fs, Tail(ruleOrder), destinationDir)

findBestFile(fs, ruleOrder, destinationDir) ==
    IF ruleOrder = <<>> THEN Tie(fs, destinationDir)
    ELSE WinnerOrNext(applyRule(Head(ruleOrder), fs), fs, ruleOrder, destinationDir)

OrderedDecision(group, best, destinationDir) ==
    [groupId |-> group.id, keep |-> <<best.winner.path>>,
     delete |-> SelectSeq(group.files, LAMBDA p : p # best.winner.path),
     notDuplicates |-> FALSE, decisionType |-> "auto", ruleApplied |-> best.ruleApplied,
     copyToDestination |-> ~isInDestination(best.winner.path, destinationDir)]

\* mutant: the confidence of the group is not looked at
evaluateGroupOrderedAnyConfidence(group, rules, fs) ==
    IF Len(fs) < 2 THEN NeedsManual
    ELSE Decided(OrderedDecision(group, findBestFile(fs, rules.ruleOrder, rules.destinationDir),
                                 rules.destinationDir))

evaluateGroupOrderedOn(group, rules, fs) ==
    IF Len(fs) < 2 THEN NeedsManual
    ELSE IF group.confidence < rules.confidenceThreshold THEN NeedsManual
    ELSE Decided(OrderedDecision(group, findBestFile(fs, rules.ruleOrder, rules.destinationDir),
                                 rules.destinationDir))

evaluateGroupOrdered(group, rules, store) ==
    evaluateGroupOrderedOn(group, rules, WithMetadata(group.files, store))

normalizeValue(value) ==
    IF value = NullStr \/ value = "" THEN NullStr ELSE toLowerCase(trim(value))

\* compareMetadataFields(...).identical; year is a number and is compared as it is
MetadataIdentical(fileA, fileB) ==
    /\ normalizeValue(fileA.title) = normalizeValue(fileB.title)
    /\ normalizeValue(fileA.artist) = normalizeValue(fileB.artist)
    /\ normalizeValue(fileA.album) = normalizeValue(fileB.album)
    /\ normalizeValue(fileA.genre) = normalizeValue(fileB.genre)
    /\ fileA.year = fileB.year

\* files.find(f => f.path !== keepPath): there are at least 2 files
FirstLoser(fs, keepPath) == SelectSeq(fs, LAMBDA f : f.path # keepPath)[1]

ReviewFields(group, best, destinationDir, identical) ==
    [groupId |-> group.id, keep |-> <<best.winner.path>>,
     delete |-> SelectSeq(group.files, LAMBDA p : p # best.winner.path),
     notDuplicates |-> FALSE, decisionType |-> "auto", ruleApplied |-> best.ruleApplied,
     copyToDestination |-> ~isInDestination(best.winner.path, destinationDir),
     metadataSource |-> IF identical THEN best.winner.path ELSE NullStr,
     needsMetadataReview |-> best.ruleApplied = "tie" /\ ~identical]

ReviewDecision(group, best, fs, destinationDir) ==
    ReviewFields(group, best, destinationDir,
                 MetadataIdentical(best.winner, FirstLoser(fs, best.winner.path)))

evaluateGroupReviewOn(group, rules, fs) ==
    IF Len(fs) < 2 THEN NeedsManual
    ELSE IF group.confidence < rules.confidenceThreshold THEN NeedsManual
    ELSE Decided(ReviewDecision(group, findBestFile(fs, rules.ruleOrder, rules.destinationDir),
                                fs, rules.destinationDir))

evaluateGroupReview(group, rules, store) ==
    evaluateGroupReviewOn(group, rules, WithMetadata(group.files, store))

FirstWhere(fs, ok(_)) == fs[CHOOSE k \in 1..Len(fs) : ok(fs[k]) /\ \A j \in 1..(k - 1) : ~ok(fs[j])]

\* the signal-rule variant: max - min of the durations that are not null
getDurationDiff(fs) ==
    LET durations == SelectSeq([k \in 1..Len(fs) |-> fs[k].duration], LAMBDA d : d # NullNum)
    IN  IF Len(durations) < 2 THEN 0 ELSE SeqMax(durations) - SeqMin(durations)

bothAreLossless(fs) == \A k \in 1..Len(fs) : fs[k].lossless

bothAreLossy(fs) == \A k \in 1..Len(fs) : ~fs[k].lossless

hasLosslessAndLossy(fs) ==
    (\E k \in 1..Len(fs) : fs[k].lossless) /\ (\E k \in 1..Len(fs) : ~fs[k].lossless)

\* the loop of findHigherBitrateFile: [best, maxBitrate], best 0 for null
RECURSIVE HigherBitrateLoop(_, _, _, _)
HigherBitrateLoop(fs, k, best, maxBitrate) ==
    IF k > Len(fs) THEN [best |-> best, maxBitrate |-> maxBitrate]
    ELSE IF OrZero(fs[k].bitrate) > maxBitrate
         THEN HigherBitrateLoop(fs, k + 1, k, OrZero(fs[k].bitrate))
         ELSE HigherBitrateLoop(fs, k + 1, best, maxBitrate)

\* the index of the file findHigherBitrateFile returns, 0 for null
findHigherBitrateFile(fs) ==
    LET found == HigherBitrateLoop(fs, 1, 0, 0)
    IN  IF found.best # 0 /\
           Cardinality({k \in 1..Len(fs) : OrZero(fs[k].bitrate) = found.maxBitrate}) > 1
        THEN 0
        ELSE found.best

InPriorityPath(file, priorityPath) ==
    dirname(file.path) = priorityPath \/ startsWith(dirname(file.path), priorityPath \o "/")

\* the index of the file findFileByPathPriority returns, 0 for null
RECURSIVE findFileByPathPriority(_, _)
findFileByPathPriority(fs, pathPriority) ==
    IF pathPriority = <<>> THEN 0
    ELSE IF \E k \in 1..Len(fs) : InPriorityPath(fs[k], Head(pathPriority))
         THEN CHOOSE k \in 1..Len(fs) :
                  /\ InPriorityPath(fs[k], Head(pathPriority))
                  /\ \A j \in 1..(k - 1) : ~InPriorityPath(fs[j], Head(pathPriority))
         ELSE findFileByPathPriority(fs, Tail(pathPriority))

\* mutant: the delete list is the whole member list
SignalDecisionAll(group, keepPath, ruleApplied) ==
    [groupId |-> group.id, keep |-> <<keepPath>>, delete |-> group.files,
     notDuplicates |-> FALSE, decisionType |-> "auto", ruleApplied |-> ruleApplied]

SignalDecision(group, keepPath, ruleApplied) ==
    [groupId |-> group.id, keep |-> <<keepPath>>,
     delete |-> SelectSeq(group.files, LAMBDA p : p # keepPath),
     notDuplicates |-> FALSE, decisionType |-> "auto", ruleApplied |-> ruleApplied]

evaluateGroupSignalOn(group, rules, fs) ==
    IF Len(fs) < 2 THEN NeedsManual
    ELSE IF group.confidence < rules.confidenceThreshold THEN NeedsManual
    ELSE IF getDurationDiff(fs) > rules.maxDurationDiffSeconds THEN NeedsManual
    ELSE IF bothAreLossless(fs) THEN NeedsManual
    ELSE IF rules.preferLossless /\ hasLosslessAndLossy(fs)
         THEN Decided(SignalDecision(group, FirstWhere(fs, LAMBDA f : f.lossless).path,
                                     "lossless-over-lossy"))
    ELSE IF rules.preferHigherBitrate /\ bothAreLossy(fs) /\ findHigherBitrateFile(fs) # 0
         THEN Decided(SignalDecision(group, fs[findHigherBitrateFile(fs)].path, "higher-bitrate"))
    ELSE IF Len(rules.pathPriority) > 0 /\ findFileByPathPriority(fs, rules.pathPriority) # 0
         THEN Decided(SignalDecision(group, fs[findFileByPathPriority(fs, rules.pathPriority)].path,
                                     "path-priority"))
    ELSE NeedsManual

evaluateGroupSignal(group, rules, store) ==
    evaluateGroupSignalOn(group, rules, WithMetadata(group.files, store))

evaluateGroup(policy, group, rules, store) ==
    IF policy = "weighted" THEN evaluateGroupWeighted(group, rules, store)
    ELSE IF policy = "ordered" THEN evaluateGroupOrdered(group, rules, store)
    ELSE IF policy = "signal" THEN evaluateGroupSignal(group, rules, store)
    ELSE evaluateGroupReview(group, rules, store)

DecisionsMention(decisions, f) == \E k \in 1..Len(decisions) : Mentions(decisions[k], f)

hasDecidedFile(group, acc) ==
    \E i \in 1..Len(group.files) :
        \/ DecisionsMention(acc.autoDecisions, group.files[i])
        \/ DecisionsMention(acc.metadataReviewDecisions, group.files[i])

NoDecisions == [autoDecisions |-> <<>>, manualGroups |-> <<>>, metadataReviewDecisions |-> <<>>]

Place(policy, acc, group, result) ==
    IF result.needsManualReview
    THEN [acc EXCEPT !.manualGroups = Append(@, group)]
    ELSE IF policy = "review" /\ result.decision.needsMetadataReview
         THEN [acc EXCEPT !.metadataReviewDecisions = Append(@, result.decision)]
         ELSE [acc EXCEPT !.autoDecisions = Append(@, result.decision)]

\* the loop over the groups, the same in every variant; only the third
\* variant's decisions can ask for a metadata review
RECURSIVE ApplyLoop(_, _, _, _, _, _)
ApplyLoop(policy, groups, rules, store, existingDecisions, acc) ==
    IF groups = <<>> THEN acc
    ELSE IF Head(groups).id \in existingDecisions \/ hasDecidedFile(Head(groups), acc)
         THEN ApplyLoop(policy, Tail(groups), rules, store, existingDecisions, acc)
         ELSE ApplyLoop(policy, Tail(groups), rules, store, existingDecisions,
                        Place(policy, acc, Head(groups), evaluateGroup(policy, Head(groups), rules, store)))

applyRulesToGroupsWeighted(groups, rules, store, existingDecisions) ==
    ApplyLoop("weighted", groups, rules, store, existingDecisions, NoDecisions)

applyRulesToGroupsOrdered(groups, rules, store, existingDecisions) ==
    ApplyLoop("ordered", groups, rules, store, existingDecisions, NoDecisions)

applyRulesToGroupsReview(groups, rules, store, existingDecisions) ==
    ApplyLoop("review", groups, rules, store, existingDecisions, NoDecisions)

applyRulesToGroupsSignal(groups, rules, store, existingDecisions) ==
    ApplyLoop("signal", groups, rules, store, existingDecisions, NoDecisions)

----------------------------------------------------------------------------
(* Duplicate detection: compareFiles and findDuplicates over a small store *)

MaxFiles == 3

NoTags ==
    [size |-> 1000, duration |-> NullNum, bitrate |-> NullNum, sampleRate |-> NullNum,
     bitDepth |-> NullNum, title |-> NullStr, artist |-> NullStr, album |-> NullStr,
     year |-> NullNum, trackNumber |-> NullNum, genre |-> NullStr]

FilePool ==
    { MakeRecord("/Volumes/ext/01 - Song.mp3",
                 [NoTags EXCEPT !.duration = 180, !.bitrate = 128,
                                !.artist = "X", !.title = "Y", !.album = "Z"]),
      MakeRecord("/Users/al/Music/Song (1).mp3",
                 [NoTags EXCEPT !.duration = 181, !.bitrate = 320,
                                !.artist = "x", !.title = "Y!"]),
      MakeRecord("/Users/al/Music/Other.flac",
                 [NoTags EXCEPT !.duration = 300, !.bitrate = 900, !.sampleRate = 44100,
                                !.artist = "X", !.title = "Y", !.album = " z "]),
      MakeRecord("/Users/al/Music/Tunes [320kbps].mp3",
                 [NoTags EXCEPT !.duration = 300, !.album = ""]),
      MakeRecord("/media/01_-_song!.ogg",
                 [NoTags EXCEPT !.duration = 176, !.bitrate = 192, !.title = "Y"]) }

DistinctPaths(fs) == \A i, j \in 1..Len(fs) : i # j => fs[i].path # fs[j].path

\* the stores loadScannedFiles can build: a Map keyed by path
FileLists ==
    {fs \in UNION {[1..n -> FilePool] : n \in 0..MaxFiles} : DistinctPaths(fs)}

DupConfigs ==
    {[durationToleranceSeconds |-> t, duplicateScoreThreshold |-> h] : t \in {0, 5}, h \in {40, 60}}

NoCmp == [i |-> 0, j |-> 0, result |-> [score |-> 0, reasons |-> <<>>]]

ConIdle ==
    /\ decisionsFile = <<>>
    /\ conflictsFile = [exists |-> FALSE]
    /\ resolvedFile = [exists |-> FALSE]
    /\ report = [exists |-> FALSE]
    /\ applied = FALSE
    /\ conPc = "review"

\* no scan is running: nothing of runScan's locals is held
NoScan == [existing |-> {}, atStart |-> {}, processedCount |-> 0, lastProcessedFile |-> 0,
           todo |-> <<>>, processed |-> 0, extracted |-> <<>>]

\* the background-batch fixMetadataInteractive has not been called
BgIdle ==
    /\ bgStart = 0
    /\ bgPc = "idle"
    /\ bgI = 0
    /\ bgResults = <<>>
    /\ bgPending = {}
    /\ bgCompleted = 0
    /\ bgShown = <<>>

\* the prefetching fixMetadataInteractive has not been called
PfIdle ==
    /\ pfStart = 0
    /\ pfFetcherIndex = 0
    /\ pfInFlight = {}
    /\ pfOwn = FALSE
    /\ pfFetched = <<>>
    /\ pfI = 0
    /\ pfPc = "idle"
    /\ pfShown = <<>>
    /\ pfStarted = <<>>

\* the fix-metadata command has not run
FxIdle ==
    /\ fxScan = <<>>
    /\ fxStateFile = [exists |-> FALSE]
    /\ fxPc = "idle"
    /\ fxList = <<>>
    /\ fxI = 0
    /\ fxLast = 0
    /\ fxUpdated = <<>>
    /\ fxShown = <<>>
    /\ fxDone = {}
    /\ fxDoneBefore = {}
    /\ fxQuitAt = NullStr
    /\ fxResumed = FALSE
    /\ fxRuns = 0

\* executeDecisions with consolidation has not been called
CxIdle ==
    /\ cxDecisions = <<>>
    /\ cxDisk = <<>>
    /\ cxCopies = <<>>
    /\ cxDeletions = <<>>
    /\ cxPc = "idle"

\* the loader has not run
LdIdle ==
    /\ ldLines = <<>>
    /\ ldFiles = <<>>
    /\ ldPc = "idle"

\* the scan command has not been started
ScIdle ==
    /\ scResults = <<>>
    /\ scStateFile = [exists |-> FALSE]
    /\ scPc = "idle"
    /\ scMem = NoScan
    /\ scRuns = 0

\* the execute command has not been started
ExIdle ==
    /\ exDecisions = [exists |-> FALSE]
    /\ exPc = "idle"
    /\ exPrompts = <<>>
    /\ exEntries = <<>>
    /\ exCalls = <<>>
    /\ exLog = [exists |-> FALSE]

RevIdle ==
    /\ revStore = <<>>
    /\ revDuplicates = [exists |-> FALSE]
    /\ revDecisions = <<>>
    /\ revPc = "idle"
    /\ revAll = <<>>
    /\ revGroups = <<>>
    /\ revSession = <<>>
    /\ revReviews = 0
    /\ revAnswers = 0

EngIdle ==
    /\ engGroups = <<>>
    /\ engRules = [policy |-> "none"]
    /\ engStore = <<>>
    /\ engExisting = {}
    /\ engResult = [autoDecisions |-> <<>>, manualGroups |-> <<>>, metadataReviewDecisions |-> <<>>]
    /\ engRerun = [autoDecisions |-> <<>>, manualGroups |-> <<>>, metadataReviewDecisions |-> <<>>]
    /\ engPc = "start"

DupIdle ==
    /\ files = <<>>
    /\ config = [durationToleranceSeconds |-> 5, duplicateScoreThreshold |-> 40]
    /\ cmp = NoCmp
    /\ dupPc = "start"
    /\ dupGroups = <<>>

DupInit ==
    /\ files \in FileLists
    /\ config \in DupConfigs
    /\ cmp = NoCmp
    /\ dupPc = "start"
    /\ dupGroups = <<>>
    /\ ConIdle
    /\ EngIdle
    /\ RevIdle
    /\ ExIdle
    /\ ScIdle
    /\ LdIdle
    /\ CxIdle
    /\ FxIdle
    /\ PfIdle
    /\ BgIdle

\* a behaviour is one call, of compareFiles on a pair or of findDuplicates on
\* the store: both read their arguments only
CompareFilesStep ==
    /\ cmp = NoCmp
    /\ dupPc = "start"
    /\ \E i, j \in 1..Len(files) :
          /\ i # j
          /\ cmp' = [i |-> i, j |-> j, result |-> compareFiles(files[i], files[j], config)]
    /\ UNCHANGED <<files, config, dupPc, dupGroups>>
    /\ UNCHANGED notDup

FindDuplicatesStep ==
    /\ dupPc = "start"
    /\ cmp = NoCmp
    /\ dupGroups' = findDuplicates(files, config)
    /\ dupPc' = "done"
    /\ UNCHANGED <<files, config, cmp>>
    /\ UNCHANGED notDup

DupNext == CompareFilesStep \/ FindDuplicatesStep

SpecDup == DupInit /\ [][DupNext]_vars

----------------------------------------------------------------------------
(* Conflict audit: decisions accumulate, are audited, resolved, verified   *)
(* and the resolved list is put back in place                              *)

MaxDecisions == 3

PA1 == "/Users/aedison/Music/Abba/Gold/a.flac"
PA2 == "/Volumes/x/Music/Abba/a.mp3"
PQ == "/Users/aedison/Music/Queen/a.mp3"
PV == "/Volumes/Music/a.opus"

Choice(keep, delete, notDuplicates, decisionType) ==
    [keep |-> keep, delete |-> delete, notDuplicates |-> notDuplicates,
     decisionType |-> decisionType]

ChoicePool ==
    { Choice(<<PA1>>, <<PA2>>, FALSE, "auto"),
      Choice(<<PA2>>, <<PA1>>, FALSE, "manual"),
      Choice(<<PQ>>, <<PA1, PV>>, FALSE, "auto"),
      Choice(<<PV>>, <<PQ>>, FALSE, "manual") }

NoFile == [exists |-> FALSE]

ConInit ==
    /\ decisionsFile = <<>>
    /\ conflictsFile = NoFile
    /\ resolvedFile = NoFile
    /\ report = NoFile
    /\ applied = FALSE
    /\ conPc = "review"
    /\ DupIdle
    /\ EngIdle
    /\ RevIdle
    /\ ExIdle
    /\ ScIdle
    /\ LdIdle
    /\ CxIdle
    /\ FxIdle
    /\ PfIdle
    /\ BgIdle

\* a review run appends one more decision to data/decisions.json
RecordDecision ==
    /\ conPc \in {"review", "detected"}
    /\ Len(decisionsFile) < MaxDecisions
    /\ \E c \in ChoicePool :
          decisionsFile' = Append(decisionsFile,
              [groupId |-> "group-" \o DecimalOf(Len(decisionsFile) + 1),
               keep |-> c.keep, delete |-> c.delete, notDuplicates |-> c.notDuplicates,
               decisionType |-> c.decisionType,
               ruleApplied |-> IF c.decisionType = "auto" THEN "weighted-score" ELSE None,
               copyToDestination |-> FALSE])
    /\ applied' = FALSE
    /\ UNCHANGED <<conflictsFile, resolvedFile, report, conPc>>
    /\ UNCHANGED notCon

\* the audit that writes data/conflicts.json
DetectConflicts ==
    /\ conPc \in {"review", "detected", "verified"}
    /\ conflictsFile' = [exists |-> TRUE, list |-> FindConflicts(decisionsFile)]
    /\ conPc' = "detected"
    /\ UNCHANGED <<decisionsFile, resolvedFile, report, applied>>
    /\ UNCHANGED notCon

ResolveConflicts ==
    /\ conPc = "detected"
    /\ resolvedFile' = [exists |-> TRUE,
                        fresh |-> conflictsFile.list = FindConflicts(decisionsFile),
                        decisions |-> ResolverOutput(decisionsFile, conflictsFile.list)]
    /\ report' = NoFile
    /\ conPc' = "resolved"
    /\ UNCHANGED <<decisionsFile, conflictsFile, applied>>
    /\ UNCHANGED notCon

VerifyResolved ==
    /\ conPc = "resolved"
    /\ report' = [exists |-> TRUE, conflicts |-> FindConflicts(resolvedFile.decisions)]
    /\ conPc' = "verified"
    /\ UNCHANGED <<decisionsFile, conflictsFile, resolvedFile, applied>>
    /\ UNCHANGED notCon

\* the resolved list replaces data/decisions.json; the verification script
\* only prints its advice, nothing enforces it
ApplyResolved ==
    /\ conPc \in {"resolved", "verified"}
    /\ decisionsFile' = resolvedFile.decisions
    /\ applied' = resolvedFile.fresh
    /\ conPc' = "review"
    /\ UNCHANGED <<conflictsFile, resolvedFile, report>>
    /\ UNCHANGED notCon

ConNext ==
    \/ RecordDecision
    \/ DetectConflicts
    \/ ResolveConflicts
    \/ VerifyResolved
    \/ ApplyResolved

SpecConflict == ConInit /\ [][ConNext]_vars

KeptPaths(decs) == UNION {Range(decs[k].keep) : k \in 1..Len(decs)}
DeletedPaths(decs) == UNION {Range(decs[k].delete) : k \in 1..Len(decs)}
Overlap(decs) == KeptPaths(decs) \cap DeletedPaths(decs)

\* C6: when the resolver is given a decision list together with the full list
\* of that list's keep/delete conflicts, no path of its output is in a keep
\* list and in a delete list at once.
C6_ResolvedHasNoConflicts ==
    (resolvedFile.exists /\ resolvedFile.fresh) => Overlap(resolvedFile.decisions) = {}

C6_Witness ==
    /\ conPc = "resolved" /\ resolvedFile.fresh
    /\ Cardinality(Overlap(decisionsFile)) >= 2
    /\ \E k \in 1..Len(resolvedFile.decisions) :
          resolvedFile.decisions[k].ruleApplied = "conflict-resolution"
    /\ \E k \in 1..Len(resolvedFile.decisions) : resolvedFile.decisions[k].groupId = "group-1"

\* C7: conflict resolution is idempotent: on a decision list that is the
\* resolver's output, the detector finds zero conflicts and the resolver
\* returns the list unchanged.
C7_Idempotent ==
    /\ (applied /\ conPc = "detected") => conflictsFile.list = <<>>
    /\ (applied /\ conPc = "resolved" /\ resolvedFile.fresh)
           => resolvedFile.decisions = decisionsFile

C7_Witness ==
    /\ applied /\ conPc = "resolved" /\ resolvedFile.fresh
    /\ \E k \in 1..Len(decisionsFile) : decisionsFile[k].ruleApplied = "different-artists"

ReportedFiles == {report.conflicts[k].file : k \in 1..Len(report.conflicts)}

\* C8: the detector reports a path exactly when some decision keeps it and
\* some decision deletes it, with exactly one entry per such path.
C8_OneEntryPerConflict ==
    conPc = "verified" =>
        /\ ReportedFiles = Overlap(resolvedFile.decisions)
        /\ Len(report.conflicts) = Cardinality(Overlap(resolvedFile.decisions))

C8_Witness ==
    /\ conPc = "verified"
    /\ \E k \in 1..Len(report.conflicts) :
          /\ Len(report.conflicts[k].keptInGroups) >= 2
          /\ Len(report.conflicts[k].deletedInGroups) >= 1
    /\ KeptPaths(resolvedFile.decisions) \ ReportedFiles # {}


StoreFiles == Range(files)

\* the pairs of distinct files of the store that score at or above the threshold
MatchTable ==
    [p \in StoreFiles \X StoreFiles |->
        /\ p[1].path # p[2].path
        /\ compareFiles(p[1], p[2], config).score >= config.duplicateScoreThreshold]

InGroup(g, f) == Contains(g.files, f.path)

\* C2: compareFiles is symmetric: the result recorded for any pair (A, B) of
\* the store is the result of comparing (B, A), score and reasons alike.
C2_Symmetric ==
    cmp.i # 0 => cmp.result = compareFiles(files[cmp.j], files[cmp.i], config)

C2_Witness ==
    /\ cmp.i # 0
    /\ cmp.result.score >= 40
    /\ Len(cmp.result.reasons) >= 2
    /\ files[cmp.i].duration # files[cmp.j].duration

SameGroup(a, b, c) ==
    \E k \in 1..Len(dupGroups) :
        InGroup(dupGroups[k], a) /\ InGroup(dupGroups[k], b) /\ InGroup(dupGroups[k], c)

ChainsGrouped(M) ==
    \A a, b, c \in StoreFiles : (M[<<a, b>>] /\ M[<<b, c>>]) => SameGroup(a, b, c)

IndirectChainGrouped(M) ==
    \E a, b, c \in StoreFiles :
        /\ M[<<a, b>>] /\ M[<<b, c>>]
        /\ a.path # c.path /\ ~M[<<a, c>>]
        /\ SameGroup(a, b, c)

Unmatched(M, f) == \A o \in StoreFiles : ~M[<<f, o>>]

\* C3: when A matches B and B matches C at or above duplicateScoreThreshold,
\* the groups returned by findDuplicates hold A, B and C in one group.
C3_Transitive == dupPc = "done" => ChainsGrouped(MatchTable)

C3_Witness == dupPc = "done" /\ IndirectChainGrouped(MatchTable)

UnmatchedUngrouped(M) ==
    \A f \in StoreFiles : Unmatched(M, f) => \A k \in 1..Len(dupGroups) : ~InGroup(dupGroups[k], f)

SomeUnmatched(M) == \E f \in StoreFiles : Unmatched(M, f)

\* C4: a file with no match at or above duplicateScoreThreshold is in no
\* returned group, and every returned group has at least 2 members.
C4_NoSingletons ==
    dupPc = "done" =>
        /\ UnmatchedUngrouped(MatchTable)
        /\ \A k \in 1..Len(dupGroups) : Len(dupGroups[k].files) >= 2

C4_Witness ==
    /\ dupPc = "done"
    /\ Len(dupGroups) >= 1
    /\ SomeUnmatched(MatchTable)

----------------------------------------------------------------------------
(* The auto-decision engine on its own: one run of applyRulesToGroups      *)
(* under one of the four policy variants, then a second run on             *)
(* the same input with the store's entries inserted in another order       *)

MaxGroups == 2

FullTags == [NoTags EXCEPT !.bitrate = 320, !.title = "S", !.artist = "A", !.album = "L",
                           !.genre = "G", !.year = 1999]

E1 == MakeRecord("/m/a/s.flac", [FullTags EXCEPT !.bitrate = 900, !.genre = NullStr, !.year = NullNum])
E2 == MakeRecord("/m/a/s.mp3", [FullTags EXCEPT !.duration = 180])
E3 == MakeRecord("/m/b/s.mp3", FullTags)
E4 == MakeRecord("/x/s.mp3", [NoTags EXCEPT !.title = "s ", !.artist = "a", !.duration = 200])
E5 == MakeRecord("/m/a/t.flac", [FullTags EXCEPT !.bitrate = 900, !.genre = NullStr, !.year = NullNum])

\* a file in a directory whose name begins with the name of a destinationDir
E6 == MakeRecord("/m/bb/s.mp3", FullTags)

Gone == "/gone/s.mp3"

EngineStore == <<E1, E2, E3, E4, E5, E6>>

Members(paths, confidence) == [files |-> paths, confidence |-> confidence]

GroupPool ==
    { Members(<<E1.path, E2.path>>, 90),
      Members(<<E2.path, E3.path>>, 90),
      Members(<<E4.path, E2.path, E3.path>>, 80),
      Members(<<E5.path, E1.path>>, 100),
      Members(<<E2.path, Gone>>, 90),
      Members(<<E1.path, E4.path>>, 60),
      Members(<<E4.path, E3.path>>, 85),
      Members(<<E6.path, E3.path>>, 90) }

\* the groups of a duplicates file: ids follow the position
GroupLists ==
    UNION {[1..n -> GroupPool] : n \in 0..MaxGroups}

WithIds(members) ==
    [k \in 1..Len(members) |->
        [id |-> "group-" \o DecimalOf(k), confidence |-> members[k].confidence,
         files |-> members[k].files]]

WeightPool ==
    { [lossless |-> 40, bitrate |-> 25, pathPriority |-> 20, metadataQuality |-> 15] }

WeightedRules ==
    [policy : {"weighted"}, confidenceThreshold : {70}, scoreDifferenceThreshold : {0, 10, 30},
     weights : WeightPool, pathPriority : {<<>>, <<"/m/b", "/m">>}]

OrderedRules ==
    [policy : {"ordered"}, confidenceThreshold : {70},
     ruleOrder : {<<"lossless", "bitrate", "metadata">>, <<"metadata", "bitrate", "lossless">>,
                  <<"bitrate">>},
     destinationDir : {"", "/m/b"}]

MaxDurationDiff == 5

SignalRules ==
    [policy : {"signal"}, confidenceThreshold : {70}, maxDurationDiffSeconds : {MaxDurationDiff},
     preferLossless : BOOLEAN, preferHigherBitrate : BOOLEAN, pathPriority : {<<>>, <<"/m/b">>}]

\* the third variant reads the same fields as the ordered-rule one
MetadataReviewRules ==
    [policy : {"review"}, confidenceThreshold : {70},
     ruleOrder : {<<"lossless", "bitrate", "metadata">>, <<"bitrate">>},
     destinationDir : {"/m/b"}]

EngInit ==
    /\ engGroups \in {WithIds(members) : members \in GroupLists}
    /\ engRules \in WeightedRules \cup OrderedRules \cup MetadataReviewRules \cup SignalRules
    /\ engStore = EngineStore
    /\ engExisting \in {{}, {"group-1"}}
    /\ engResult = NoDecisions
    /\ engRerun = NoDecisions
    /\ engPc = "start"
    /\ DupIdle
    /\ ConIdle
    /\ RevIdle
    /\ ExIdle
    /\ ScIdle
    /\ LdIdle
    /\ CxIdle
    /\ FxIdle
    /\ PfIdle
    /\ BgIdle

ApplyRulesWeighted ==
    /\ engPc = "start"
    /\ engRules.policy = "weighted"
    /\ engResult' = applyRulesToGroupsWeighted(engGroups, engRules, engStore, engExisting)
    /\ engPc' = "done"
    /\ UNCHANGED <<engGroups, engRules, engStore, engExisting, engRerun>>
    /\ UNCHANGED notEng

ApplyRulesOrdered ==
    /\ engPc = "start"
    /\ engRules.policy = "ordered"
    /\ engResult' = applyRulesToGroupsOrdered(engGroups, engRules, engStore, engExisting)
    /\ engPc' = "done"
    /\ UNCHANGED <<engGroups, engRules, engStore, engExisting, engRerun>>
    /\ UNCHANGED notEng

ApplyRulesReview ==
    /\ engPc = "start"
    /\ engRules.policy = "review"
    /\ engResult' = applyRulesToGroupsReview(engGroups, engRules, engStore, engExisting)
    /\ engPc' = "done"
    /\ UNCHANGED <<engGroups, engRules, engStore, engExisting, engRerun>>
    /\ UNCHANGED notEng

ApplyRulesSignal ==
    /\ engPc = "start"
    /\ engRules.policy = "signal"
    /\ engResult' = applyRulesToGroupsSignal(engGroups, engRules, engStore, engExisting)
    /\ engPc' = "done"
    /\ UNCHANGED <<engGroups, engRules, engStore, engExisting, engRerun>>
    /\ UNCHANGED notEng

Reversed(seq) == [k \in 1..Len(seq) |-> seq[Len(seq) + 1 - k]]

\* the same groups, rules, records and decided set once more; the store was
\* loaded with its entries in another order
ApplyRulesAgain ==
    /\ engPc = "done"
    /\ engStore' = Reversed(engStore)
    /\ engRerun' = ApplyLoop(engRules.policy, engGroups, engRules, Reversed(engStore),
                             engExisting, NoDecisions)
    /\ engPc' = "again"
    /\ UNCHANGED <<engGroups, engRules, engExisting, engResult>>
    /\ UNCHANGED notEng

EngNext ==
    \/ ApplyRulesWeighted
    \/ ApplyRulesOrdered
    \/ ApplyRulesReview
    \/ ApplyRulesSignal
    \/ ApplyRulesAgain

SpecEngine == EngInit /\ [][EngNext]_vars

GroupOf(decision) == engGroups[CHOOSE k \in 1..Len(engGroups) : engGroups[k].id = decision.groupId]

MembersOf(group) == WithMetadata(group.files, engStore)

AutoDecisions == {engResult.autoDecisions[k] : k \in 1..Len(engResult.autoDecisions)}

IsManual(group) == \E k \in 1..Len(engResult.manualGroups) : engResult.manualGroups[k] = group

IsDecided(group) == \E d \in AutoDecisions : d.groupId = group.id

\* the group is neither in the decided set nor shares a file with a group before it
Fresh(k) ==
    /\ engGroups[k].id \notin engExisting
    /\ \A j \in 1..(k - 1) : Range(engGroups[j].files) \cap Range(engGroups[k].files) = {}

Gates(group) ==
    Len(MembersOf(group)) >= 2 /\ group.confidence >= engRules.confidenceThreshold

\* the one member a rule ranks strictly above every other member, if any
UniqueBest(rule, fs) ==
    \E k \in 1..Len(fs) : \A j \in 1..Len(fs) : j # k => RuleKey(rule, fs[k]) > RuleKey(rule, fs[j])

BestOf(rule, fs) ==
    fs[CHOOSE k \in 1..Len(fs) :
          \A j \in 1..Len(fs) : j # k => RuleKey(rule, fs[k]) > RuleKey(rule, fs[j])]

FirstSeparating(ruleOrder, fs) ==
    IF \E i \in 1..Len(ruleOrder) : UniqueBest(ruleOrder[i], fs)
    THEN CHOOSE i \in 1..Len(ruleOrder) :
            /\ UniqueBest(ruleOrder[i], fs)
            /\ \A h \in 1..(i - 1) : ~UniqueBest(ruleOrder[h], fs)
    ELSE 0

DecidedByRule(d, ruleOrder, fs, i) ==
    IF i = 0 THEN d.ruleApplied = "tie"
    ELSE d.ruleApplied = ruleOrder[i] /\ d.keep = <<BestOf(ruleOrder[i], fs).path>>

FlacAndMp3(fs) ==
    /\ Len(fs) = 2
    /\ \E k \in 1..2 : fs[k].format = "flac" /\ fs[3 - k].format = "mp3"

FlacOf(fs) == fs[CHOOSE k \in 1..2 : fs[k].format = "flac"].path

\* C9: under the ordered-rule policy every auto-decision keeps the member that
\* the first rule of ruleOrder ranking one member strictly above all others
\* ranks first, with that rule as ruleApplied ("tie" when no rule does); with
\* ruleOrder [lossless, bitrate, metadata] a FLAC + MP3 group keeps the FLAC
\* with ruleApplied "lossless".
C9_FirstSeparatingRule ==
    (engPc # "start" /\ engRules.policy = "ordered") =>
        \A d \in AutoDecisions :
            /\ DecidedByRule(d, engRules.ruleOrder, MembersOf(GroupOf(d)),
                             FirstSeparating(engRules.ruleOrder, MembersOf(GroupOf(d))))
            /\ (engRules.ruleOrder = <<"lossless", "bitrate", "metadata">>
                /\ FlacAndMp3(MembersOf(GroupOf(d))))
                  => (d.ruleApplied = "lossless" /\ d.keep = <<FlacOf(MembersOf(GroupOf(d)))>>)

C9_Witness ==
    /\ engPc = "done" /\ engRules.policy = "ordered"
    /\ engRules.ruleOrder = <<"lossless", "bitrate", "metadata">>
    /\ \E d \in AutoDecisions :
          FlacAndMp3(MembersOf(GroupOf(d))) /\ d.ruleApplied = "lossless" /\ d.keep = <<E1.path>>
    /\ \E d \in AutoDecisions : d.ruleApplied = "bitrate"

TopIndex(scores) == CHOOSE k \in 1..Len(scores) : \A j \in 1..Len(scores) : scores[j] <= scores[k]

SecondBest(scores, top) ==
    CHOOSE v \in {scores[j] : j \in (1..Len(scores)) \ {top}} :
        \A j \in (1..Len(scores)) \ {top} : scores[j] <= v

\* best composite score minus second-best, over the group's common denominator
Gap(scores) == scores[TopIndex(scores)] - SecondBest(scores, TopIndex(scores))

GapOf(group) == Gap(FileScores(MembersOf(group), engRules))

ThresholdOf(group) ==
    engRules.scoreDifferenceThreshold * ScoreDen(MembersOf(group), engRules.pathPriority)

SameScores(fs) ==
    /\ Len(fs) = 2
    /\ fs[1].lossless = fs[2].lossless
    /\ OrZero(fs[1].bitrate) = OrZero(fs[2].bitrate)
    /\ PathPosition(fs[1], engRules.pathPriority) = PathPosition(fs[2], engRules.pathPriority)
    /\ getMetadataCount(fs[1]) = getMetadataCount(fs[2])

\* C10: under the weighted policy a group is auto-decided only if the best
\* composite score exceeds the second-best by at least
\* scoreDifferenceThreshold; an evaluated group (not skipped, two members with
\* metadata, confident enough) with a smaller gap goes to manual review; two
\* members with identical component scores are deferred for every positive
\* threshold.
C10_ScoreGap ==
    (engPc # "start" /\ engRules.policy = "weighted") =>
        /\ \A d \in AutoDecisions : GapOf(GroupOf(d)) >= ThresholdOf(GroupOf(d))
        /\ \A k \in 1..Len(engGroups) :
              (Fresh(k) /\ Gates(engGroups[k])) =>
                  /\ GapOf(engGroups[k]) < ThresholdOf(engGroups[k])
                        => (IsManual(engGroups[k]) /\ ~IsDecided(engGroups[k]))
                  /\ GapOf(engGroups[k]) >= ThresholdOf(engGroups[k])
                        => (IsDecided(engGroups[k]) /\ ~IsManual(engGroups[k]))
                  /\ (SameScores(MembersOf(engGroups[k])) /\ engRules.scoreDifferenceThreshold > 0)
                        => (IsManual(engGroups[k]) /\ ~IsDecided(engGroups[k]))

C10_Witness ==
    /\ engPc = "done" /\ engRules.policy = "weighted"
    /\ engRules.scoreDifferenceThreshold > 0
    /\ \E d \in AutoDecisions : GapOf(GroupOf(d)) = ThresholdOf(GroupOf(d))
    /\ \E k \in 1..Len(engGroups) :
          /\ Fresh(k) /\ Gates(engGroups[k]) /\ SameScores(MembersOf(engGroups[k]))
          /\ IsManual(engGroups[k])


\* the first member, in the group's order, among the members under
\* destinationDir if there are any, else among all members
FirstCandidate(fs, dest) ==
    IF \E k \in 1..Len(fs) : isInDestination(fs[k].path, dest)
    THEN FirstWhere(fs, LAMBDA f : isInDestination(f.path, dest))
    ELSE fs[1]

FirstTop(fs, scores) ==
    fs[CHOOSE k \in 1..Len(fs) :
          /\ \A j \in 1..Len(fs) : scores[j] <= scores[k]
          /\ \A j \in 1..(k - 1) : scores[j] < scores[k]]

Under(path, dir) == startsWith(path, dir \o "/")

\* C20: under the ordered-rule policy, when no rule of ruleOrder ranks one
\* member strictly above the others, ruleApplied is 'tie' and the keeper is a
\* member under destinationDir if the group has one, else the first member.
C20_TieFallback ==
    (engPc # "start" /\ engRules.policy = "ordered") =>
        \A d \in AutoDecisions :
            FirstSeparating(engRules.ruleOrder, MembersOf(GroupOf(d))) = 0 =>
                /\ d.ruleApplied = "tie"
                /\ IF \E k \in 1..Len(MembersOf(GroupOf(d))) :
                          Under(MembersOf(GroupOf(d))[k].path, engRules.destinationDir)
                   THEN Under(d.keep[1], engRules.destinationDir)
                   ELSE d.keep = <<MembersOf(GroupOf(d))[1].path>>

\* C21: in every ordered-rule auto-decision copyToDestination is true exactly
\* when the keeper does not lie under destinationDir, that is when
\* destinationDir is not one of the keeper's ancestor directories.
C21_CopyIffOutside ==
    (engPc # "start" /\ engRules.policy = "ordered") =>
        \A d \in AutoDecisions :
            d.copyToDestination <=> ~Under(d.keep[1], engRules.destinationDir)

\* every decision of the pass, those set aside for a metadata review included
PassDecided == AutoDecisions \cup Range(engResult.metadataReviewDecisions)

\* the record of the kept file
KeeperOf(d) == FirstWhere(MembersOf(GroupOf(d)), LAMBDA f : f.path = d.keep[1])

\* the representative deleted file: the first other member with metadata
RepresentativeOf(d) == FirstWhere(MembersOf(GroupOf(d)), LAMBDA f : f.path # d.keep[1])

\* the flag is set exactly for a tie between files whose normalized tags differ
FlaggedOnTieWithDifferentTags ==
    (engPc # "start" /\ engRules.policy = "review") =>
        \A d \in PassDecided :
            d.needsMetadataReview <=>
                (d.ruleApplied = "tie" /\ ~MetadataIdentical(KeeperOf(d), RepresentativeOf(d)))

\* a decision that is not flagged names the keeper as its metadata source
UnflaggedTakesKeeperTags ==
    (engPc # "start" /\ engRules.policy = "review") =>
        \A d \in PassDecided : ~d.needsMetadataReview => d.metadataSource = d.keep[1]

\* C22: in the metadata-review variant needsMetadataReview is true exactly
\* when the keeper's and the representative deleted file's normalized tags
\* differ and the resolution was a tie; in every other case metadataSource is
\* the keeper's own path.
C22_MetadataReviewFlag == FlaggedOnTieWithDifferentTags /\ UnflaggedTakesKeeperTags

\* C19: under every policy a decision is made only for a group with at least
\* 2 members that have metadata in the store and a confidence of at least
\* confidenceThreshold; an evaluated group that fails either condition is in
\* manualGroups and has no decision.
C19_GatesBeforeDecision ==
    engPc # "start" =>
        /\ \A d \in PassDecided : Gates(GroupOf(d))
        /\ \A k \in 1..Len(engGroups) :
              (Fresh(k) /\ ~Gates(engGroups[k])) =>
                  /\ IsManual(engGroups[k])
                  /\ \A d \in PassDecided : d.groupId # engGroups[k].id

\* one group with a member missing from the store and one group of low
\* confidence, both evaluated and both sent to manual review
C19_Witness ==
    /\ engPc = "done"
    /\ engRules.policy = "review"
    /\ \E k \in 1..Len(engGroups) :
          /\ Fresh(k) /\ Len(MembersOf(engGroups[k])) < 2
          /\ engGroups[k].confidence >= engRules.confidenceThreshold
          /\ IsManual(engGroups[k])
    /\ \E k \in 1..Len(engGroups) :
          /\ Fresh(k) /\ Len(MembersOf(engGroups[k])) >= 2
          /\ engGroups[k].confidence < engRules.confidenceThreshold
          /\ IsManual(engGroups[k])

\* C30: every decision of applyRulesToGroups, under every policy variant,
\* keeps exactly one path, a member of the group with a record in the store;
\* its delete list is the other members of the group in order, so keep and
\* delete are disjoint, together they are the member list, and the delete
\* list never holds every member.
C30_KeepOneDeleteOthers ==
    engPc # "start" =>
        \A d \in PassDecided :
            /\ Len(d.keep) = 1
            /\ d.keep[1] \in Range(GroupOf(d).files)
            /\ HasFile(engStore, d.keep[1])
            /\ d.delete = SelectSeq(GroupOf(d).files, LAMBDA p : p # d.keep[1])
            /\ Range(d.keep) \cap Range(d.delete) = {}
            /\ Range(d.keep) \cup Range(d.delete) = Range(GroupOf(d).files)
            /\ Range(d.delete) # Range(GroupOf(d).files)

\* the signal rules have decided one group for its lossless member and
\* another for its higher bitrate
C30_Witness ==
    /\ engPc = "done"
    /\ engRules.policy = "signal"
    /\ \E d \in AutoDecisions : d.ruleApplied = "lossless-over-lossy" /\ Len(d.delete) = 1
    /\ \E d \in AutoDecisions : d.ruleApplied = "higher-bitrate" /\ Len(d.delete) = 1

----------------------------------------------------------------------------
(* The review command over a growing library: scan, find duplicates,       *)
(* review (auto-decisions, then manual answers), and the decisions file    *)
(* carried from one review to the next                                     *)

MaxReviews == 2
MaxAnswers == 2

GoldTags == [NoTags EXCEPT !.duration = 200, !.artist = "Abba", !.title = "Gold"]

JazzTags == [NoTags EXCEPT !.duration = 300, !.bitrate = 128]

\* the audio files on disk, in the order the scanner meets them
Library ==
    << MakeRecord("/lib/a/jazz.mp3", JazzTags),
       MakeRecord("/lib/a/gold.mp3", [GoldTags EXCEPT !.bitrate = 320]),
       MakeRecord("/lib/b/gold.mp3", [GoldTags EXCEPT !.bitrate = 128]),
       MakeRecord("/lib/c/jazz.mp3", JazzTags),
       MakeRecord("/lib/c/gold.flac", [GoldTags EXCEPT !.bitrate = 900]) >>

DEFAULT_CONFIG == [durationToleranceSeconds |-> 5, duplicateScoreThreshold |-> 40]

ReviewRules ==
    [policy : {"review"}, confidenceThreshold : {70},
     ruleOrder : {<<"lossless", "bitrate", "metadata">>, <<"metadata">>},
     destinationDir : {""}]

Answers == {"quit", "skip", "not-duplicates", "keep-0", "keep-1", "declined"}

RevInit ==
    /\ revStore = <<>>
    /\ revDuplicates = NoFile
    /\ revDecisions = <<>>
    /\ revPc = "idle"
    /\ revAll = <<>>
    /\ revGroups = <<>>
    /\ revSession = <<>>
    /\ revReviews = 0
    /\ revAnswers = 0
    /\ DupIdle
    /\ ConIdle
    /\ EngIdle
    /\ ExIdle
    /\ ScIdle
    /\ LdIdle
    /\ CxIdle
    /\ FxIdle
    /\ PfIdle
    /\ BgIdle

\* the scan appends the record of the next file it meets
ScanFile ==
    /\ revPc = "idle"
    /\ Len(revStore) < Len(Library)
    /\ revStore' = Append(revStore, Library[Len(revStore) + 1])
    /\ UNCHANGED <<revDuplicates, revDecisions, revPc, revAll, revGroups, revSession,
                   revReviews, revAnswers>>
    /\ UNCHANGED notRev

\* findDuplicates on the scanned records, its phases (match table, clusters,
\* groups, sort) evaluated one after the other
runFindDupes ==
    /\ revPc = "idle"
    /\ Len(revStore) > 0
    /\ \E matches \in {BuildMatches(EmptyMatches, revStore, 1, 2, DEFAULT_CONFIG)} :
          \E clusters \in {buildTransitiveClusters(matches)} :
             revDuplicates' =
                 [exists |-> TRUE,
                  groups |-> SortByConfidence(MakeGroups(clusters, revStore, DEFAULT_CONFIG))]
    /\ UNCHANGED <<revStore, revDecisions, revPc, revAll, revGroups, revSession,
                   revReviews, revAnswers>>
    /\ UNCHANGED notRev

GroupIds(decisions) == {decisions[k].groupId : k \in 1..Len(decisions)}

DecidedFiles(decisions) == KeptPaths(decisions) \cup DeletedPaths(decisions)

\* getPendingPairs
PendingPairs(groups, decidedFiles) ==
    SelectSeq(groups, LAMBDA g : Range(g.files) \cap decidedFiles = {})

\* allDecisions.push(...result.decisions.filter(d => no decision of allDecisions has its groupId))
PushNew(allDecisions, returned) ==
    allDecisions \o SelectSeq(returned, LAMBDA d : d.groupId \notin GroupIds(allDecisions))

\* the fields of a manual decision that the decisions file is read for; the
\* metadata choice added by promptForMetadataSelection changes neither list
ManualDecision(group, keep, delete, notDuplicates) ==
    [groupId |-> group.id, keep |-> keep, delete |-> delete, notDuplicates |-> notDuplicates,
     decisionType |-> "manual", ruleApplied |-> "manual", copyToDestination |-> FALSE]

KeepIndex(answer) == IF answer = "keep-0" THEN 1 ELSE 2

\* promptForDecision for every answer but quit
promptForDecision(group, answer) ==
    IF answer \in {"skip", "declined"} THEN ManualDecision(group, <<>>, <<>>, FALSE)
    ELSE IF answer = "not-duplicates" THEN ManualDecision(group, group.files, <<>>, TRUE)
    ELSE ManualDecision(group, <<group.files[KeepIndex(answer)]>>,
                        [k \in 1..(Len(group.files) - 1) |->
                            group.files[IF k < KeepIndex(answer) THEN k ELSE k + 1]],
                        FALSE)

\* reviewDuplicates has returned: runReview adds the new decisions and writes the file
ReviewReturns(allDecisions, returned) ==
    /\ revDecisions' = PushNew(allDecisions, returned)
    /\ revPc' = "idle"
    /\ revAll' = <<>>
    /\ revGroups' = <<>>
    /\ revSession' = <<>>
    /\ revAnswers' = 0

\* runReview from its start to the first prompt of the manual review, or to
\* the end when nothing is left to ask
ReviewWith(autoResult, allDecisions) ==
    IF PendingPairs(autoResult.manualGroups, DecidedFiles(allDecisions)) = <<>>
    THEN ReviewReturns(allDecisions, allDecisions)
    ELSE /\ revPc' = "manual"
         /\ revAll' = allDecisions
         /\ revGroups' = autoResult.manualGroups
         /\ revSession' = allDecisions
         /\ revAnswers' = 0
         /\ UNCHANGED revDecisions

ReviewAuto(autoResult) == ReviewWith(autoResult, revDecisions \o autoResult.autoDecisions)

runReview ==
    /\ revPc \in {"idle", "interrupted"}
    /\ revDuplicates.exists
    /\ revReviews < MaxReviews
    /\ revReviews' = revReviews + 1
    /\ \E rules \in ReviewRules :
          ReviewAuto(applyRulesToGroupsReview(SortByConfidence(revDuplicates.groups), rules,
                                              revStore, GroupIds(revDecisions)))
    /\ UNCHANGED <<revStore, revDuplicates>>
    /\ UNCHANGED notRev

\* the manual review goes on after a recorded decision, or returns
ReviewGoesOn(session) ==
    IF PendingPairs(revGroups, DecidedFiles(session)) = <<>>
    THEN ReviewReturns(revAll, session)
    ELSE /\ revSession' = session
         /\ revAnswers' = revAnswers + 1
         /\ UNCHANGED <<revDecisions, revPc, revAll, revGroups>>

AnswerPrompt ==
    /\ revPc = "manual"
    /\ \E answer \in Answers :
          IF answer = "quit" THEN ReviewReturns(revAll, revSession)
          ELSE /\ revAnswers < MaxAnswers
               /\ ReviewGoesOn(Append(revSession,
                      promptForDecision(PendingPairs(revGroups, DecidedFiles(revSession))[1],
                                        answer)))
    /\ UNCHANGED <<revStore, revDuplicates, revReviews>>
    /\ UNCHANGED notRev

\* the prompt is interrupted: its promise rejects, no handler catches it before
\* the command's .catch(console.error), and runReview never reaches writeFile
InterruptReview ==
    /\ revPc = "manual"
    /\ revPc' = "interrupted"
    /\ UNCHANGED <<revStore, revDuplicates, revDecisions, revAll, revGroups, revSession,
                   revReviews, revAnswers>>
    /\ UNCHANGED notRev

RevNext ==
    \/ ScanFile
    \/ runFindDupes
    \/ runReview
    \/ AnswerPrompt
    \/ InterruptReview

SpecReview == RevInit /\ [][RevNext]_vars

\* C1: the decision set runReview writes never has a path in the keep list
\* of one decision and in the delete list of the same or another decision.
C1_NoKeepDeleteOverlap == Overlap(revDecisions) = {}

\* the decisions the manual review has recorded since it started
RecordedInSession == {revSession[k] : k \in (Len(revAll) + 1)..Len(revSession)}

\* C15: when the manual review is cancelled, by quit or by interrupt, every
\* decision recorded before the cancellation is in the decisions file once the
\* command has exited.
C15_CancelSavesProgress ==
    revPc = "interrupted" => RecordedInSession \subseteq Range(revDecisions)

\* the groups as runReview hands them to applyRulesToGroups
SortedGroups == SortByConfidence(revDuplicates.groups)

\* the call of applyRulesToGroups that a review started now would make
ReviewPass(rules) == applyRulesToGroupsReview(SortedGroups, rules, revStore, GroupIds(revDecisions))

PassDecisions(result) == Range(result.autoDecisions) \cup Range(result.metadataReviewDecisions)

\* the group was auto-decided or sent to manual review
Handled(result, group) ==
    \/ \E k \in 1..Len(result.manualGroups) : result.manualGroups[k].id = group.id
    \/ \E d \in PassDecisions(result) : d.groupId = group.id

\* the files in the decisions the pass made for the groups before the k-th
DecidedEarlier(result, k) ==
    UNION {Range(d.keep) \cup Range(d.delete) :
              d \in {e \in PassDecisions(result) : \E j \in 1..(k - 1) : SortedGroups[j].id = e.groupId}}

CanReview == revPc \in {"idle", "interrupted"} /\ revDuplicates.exists

\* a group with a member file in a decision of the decisions file is skipped
SkipsFilesOfExisting ==
    CanReview =>
        \A rules \in ReviewRules : \A k \in 1..Len(SortedGroups) :
            Range(SortedGroups[k].files) \cap DecidedFiles(revDecisions) # {}
                => ~Handled(ReviewPass(rules), SortedGroups[k])

\* a group with a member file in a decision made earlier in the pass is skipped
SkipsFilesOfThisPass ==
    CanReview =>
        \A rules \in ReviewRules : \A k \in 1..Len(SortedGroups) :
            Range(SortedGroups[k].files) \cap DecidedEarlier(ReviewPass(rules), k) # {}
                => ~Handled(ReviewPass(rules), SortedGroups[k])

\* C18: applyRulesToGroups neither auto-decides nor sends to manual review a
\* group with a member file in the keep or delete list of a decision of the
\* existing decision set or of a decision made earlier in the same pass.
C18_SkipsDecidedFiles == SkipsFilesOfExisting /\ SkipsFilesOfThisPass

\* positions in the session list of the decisions recorded by this review
SessionIndices == (Len(revAll) + 1)..Len(revSession)

\* the groups reviewDuplicates still has to present
StillPending == PendingPairs(revGroups, DecidedFiles(revSession))

\* C26: every answer other than quit makes progress: the answered group is no
\* longer pending, at most one decision per groupId is recorded, and no more
\* groups are presented than were pending when the review started.
C26_AnswerMakesProgress ==
    revPc = "manual" =>
        /\ \A k \in SessionIndices :
              \A n \in 1..Len(StillPending) : StillPending[n].id # revSession[k].groupId
        /\ \A j, k \in SessionIndices : j # k => revSession[j].groupId # revSession[k].groupId
        /\ revAnswers + 1 <= Len(PendingPairs(revGroups, DecidedFiles(revAll)))

----------------------------------------------------------------------------
(* compareFiles and findDuplicates on pairs of files that share a file     *)
(* name and differ in tags, format, size and volume                        *)

PairPaths == {"/Volumes/a/Song.mp3", "/Volumes/b/Song.mp3", "/Volumes/b/Song.flac"}

GoldSong ==
    [NoTags EXCEPT !.duration = 200, !.bitrate = 320, !.artist = "Abba", !.title = "Gold",
                   !.album = "Gold"]

\* what the tag reader can return for a file: a tag may be absent (null) or
\* present and empty
PairTags ==
    { GoldSong,
      [GoldSong EXCEPT !.size = 2000],
      [GoldSong EXCEPT !.artist = ""],
      [GoldSong EXCEPT !.album = ""],
      [GoldSong EXCEPT !.duration = 0, !.bitrate = 128, !.year = 1992],
      [GoldSong EXCEPT !.bitrate = 256, !.sampleRate = 48000],
      [NoTags EXCEPT !.title = "Gold"] }

PairPool == {MakeRecord(path, t) : path \in PairPaths, t \in PairTags}

PairLists == {fs \in [1..2 -> PairPool] : DistinctPaths(fs)}

\* config.json is merged over DEFAULT_CONFIG without validation
PairConfigs ==
    {[durationToleranceSeconds |-> t, duplicateScoreThreshold |-> 40] : t \in {-1, 0, 5}}

PairInit ==
    /\ files \in PairLists
    /\ config \in PairConfigs
    /\ cmp = NoCmp
    /\ dupPc = "start"
    /\ dupGroups = <<>>
    /\ ConIdle
    /\ EngIdle
    /\ RevIdle
    /\ ExIdle
    /\ ScIdle
    /\ LdIdle
    /\ CxIdle
    /\ FxIdle
    /\ PfIdle
    /\ BgIdle

SpecPairs == PairInit /\ [][DupNext]_vars

Compared(k) == files[IF k = 1 THEN cmp.i ELSE cmp.j]

HasReasons(result, wanted) == wanted \subseteq Range(result.reasons)

SameTags(a, b) ==
    /\ a.duration = b.duration
    /\ a.artist = b.artist
    /\ a.title = b.title
    /\ a.album = b.album

AllPresent(a) ==
    a.duration # NullNum /\ a.artist # NullStr /\ a.title # NullStr /\ a.album # NullStr

AllFilled(a) == a.duration # NullNum /\ Truthy(a.artist) /\ Truthy(a.title) /\ Truthy(a.album)

StrongMatch(result) ==
    result.score >= 80 /\ HasReasons(result, {"duration", "artist+title", "album"})

\* C11 as stated: two files with identical non-null duration, artist, title
\* and album score at least 80 with the reasons duration, artist+title and
\* album. An empty tag is not null, and is not compared.
C11_NonNullTagsMatch ==
    (cmp.i # 0 /\ SameTags(Compared(1), Compared(2)) /\ AllPresent(Compared(1)))
        => StrongMatch(cmp.result)

\* C11 amended: under a duration tolerance of at least 0, two files with the
\* same non-null duration and the same non-empty artist, title and album
\* score at least 80, and the reasons include duration, artist+title and
\* album.
C11_FilledTagsMatch ==
    (/\ cmp.i # 0
     /\ config.durationToleranceSeconds >= 0
     /\ SameTags(Compared(1), Compared(2))
     /\ AllFilled(Compared(1)))
        => StrongMatch(cmp.result)

C11_Witness ==
    /\ cmp.i # 0
    /\ SameTags(Compared(1), Compared(2))
    /\ AllFilled(Compared(1))
    /\ Compared(1).duration = 0
    /\ config.durationToleranceSeconds = 0
    /\ cmp.result.score = 100

\* C16: the confidence of every group findDuplicates returns is on the
\* 0-100 scale.
C16_ConfidenceInScale ==
    dupPc = "done" =>
        \A k \in 1..Len(dupGroups) : dupGroups[k].confidence >= 0 /\ dupGroups[k].confidence <= 100

BitrateOf(a) == IF TruthyNum(a.bitrate) THEN a.bitrate ELSE 0

\* a is ahead of b on the first criterion on which they differ: filled
\* tags, then lossless, then bitrate, then file size
Ahead(a, b) ==
    \/ countFilledTags(a) > countFilledTags(b)
    \/ /\ countFilledTags(a) = countFilledTags(b)
       /\ \/ a.lossless /\ ~b.lossless
          \/ /\ a.lossless = b.lossless
             /\ \/ BitrateOf(a) > BitrateOf(b)
                \/ BitrateOf(a) = BitrateOf(b) /\ a.size > b.size

\* C17: the suggested keeper of a group is never a member that another
\* member is ahead of by filled tags, then lossless, then bitrate, then size.
C17_KeeperByCriteria ==
    dupPc = "done" =>
        \A k \in 1..Len(dupGroups) : \A a, b \in StoreFiles :
            (InGroup(dupGroups[k], a) /\ InGroup(dupGroups[k], b) /\ Ahead(a, b))
                => dupGroups[k].suggestedKeep # b.path

\* ---------------------------------------------------------------------------
\* The execute command: runExecute asks, executeDecisions deletes, the log is
\* written.
\* ---------------------------------------------------------------------------

MaxExecDecisions == 2

\* the decisions a decisions file of the execute command may hold
ExecDecisionPool ==
    { [groupId |-> "group-1", keep |-> <<"/m/a.flac">>, delete |-> <<"/m/a.mp3">>, notDuplicates |-> FALSE],
      [groupId |-> "group-2", keep |-> <<"/m/b.flac">>, delete |-> <<"/m/b.mp3", "/m/a.mp3">>,
       notDuplicates |-> FALSE],
      [groupId |-> "group-3", keep |-> <<"/m/c.mp3", "/m/d.mp3">>, delete |-> <<>>, notDuplicates |-> TRUE] }

ExecDecisionLists ==
    UNION {[1..n -> ExecDecisionPool] : n \in 0..MaxExecDecisions}

\* decisions.flatMap(d => d.delete)
RECURSIVE FilesToDelete(_)
FilesToDelete(decisions) ==
    IF decisions = <<>> THEN <<>>
    ELSE Head(decisions).delete \o FilesToDelete(Tail(decisions))

\* the two fields of the summary that runExecute reads
calculateDeletionSummary(decisions) ==
    [totalFiles |-> Len(FilesToDelete(decisions)), filesToDelete |-> FilesToDelete(decisions)]

\* what a prompt can come back with: an answer, or the rejection of an
\* interrupted prompt
PromptOutcomes == {"yes", "no", "interrupt"}

ExInit ==
    /\ exDecisions \in {[exists |-> FALSE]} \cup
                       {[exists |-> TRUE, decisions |-> ds] : ds \in ExecDecisionLists}
    /\ exPc = "idle"
    /\ exPrompts = <<>>
    /\ exEntries = <<>>
    /\ exCalls = <<>>
    /\ exLog = [exists |-> FALSE]
    /\ DupIdle
    /\ ConIdle
    /\ EngIdle
    /\ RevIdle
    /\ ScIdle
    /\ LdIdle
    /\ CxIdle
    /\ FxIdle
    /\ PfIdle
    /\ BgIdle

Asked(prompt, outcome) == exPrompts \o <<[prompt |-> prompt, outcome |-> outcome]>>

\* runAll asks before it calls runExecute
runAllAsksExecute ==
    /\ exPc = "idle"
    /\ exPrompts = <<>>
    /\ \E outcome \in PromptOutcomes :
        /\ exPrompts' = Asked("continue", outcome)
        /\ exPc' = IF outcome = "yes" THEN "idle" ELSE "done"
    /\ UNCHANGED <<exDecisions, exEntries, exCalls, exLog, notEx>>

\* runExecute up to its first prompt
runExecute ==
    /\ exPc = "idle"
    /\ exPc' = IF ~exDecisions.exists THEN "done"
               ELSE IF calculateDeletionSummary(exDecisions.decisions).totalFiles = 0 THEN "done"
               ELSE "viewList"
    /\ UNCHANGED <<exDecisions, exPrompts, exEntries, exCalls, exLog, notEx>>

\* promptViewFullList only displays the list
AnswerViewFullList ==
    /\ exPc = "viewList"
    /\ \E outcome \in PromptOutcomes :
        /\ exPrompts' = Asked("view", outcome)
        /\ exPc' = IF outcome = "interrupt" THEN "done" ELSE "firstConfirm"
    /\ UNCHANGED <<exDecisions, exEntries, exCalls, exLog, notEx>>

\* the first confirm of promptDoubleConfirmation
AfterFirstConfirm(outcome) == IF outcome = "yes" THEN "secondConfirm" ELSE "done"

AnswerFirstConfirm ==
    /\ exPc = "firstConfirm"
    /\ \E outcome \in PromptOutcomes :
        /\ exPrompts' = Asked("first", outcome)
        /\ exPc' = AfterFirstConfirm(outcome)
    /\ UNCHANGED <<exDecisions, exEntries, exCalls, exLog, notEx>>

\* mutant: the final confirmation proceeds whatever the answer
AfterSecondConfirmAny(outcome) == IF outcome = "interrupt" THEN "done" ELSE "deleting"

\* the second confirm, and runExecute's test of the returned value
AfterSecondConfirm(outcome) == IF outcome = "yes" THEN "deleting" ELSE "done"

AnswerSecondConfirm ==
    /\ exPc = "secondConfirm"
    /\ \E outcome \in PromptOutcomes :
        /\ exPrompts' = Asked("second", outcome)
        /\ exPc' = AfterSecondConfirm(outcome)
    /\ UNCHANGED <<exDecisions, exEntries, exCalls, exLog, notEx>>

Call(op, path, ok) == [op |-> op, path |-> path, ok |-> ok]

\* mutant: a failed move to trash is logged without trying unlink
deleteFileNoFallback(path, trashOk, unlinkOk) ==
    IF trashOk
    THEN [entry |-> [path |-> path, method |-> "trash", success |-> TRUE, error |-> NullStr],
          calls |-> <<Call("trash", path, TRUE)>>]
    ELSE [entry |-> [path |-> path, method |-> "trash", success |-> FALSE, error |-> "Unknown error"],
          calls |-> <<Call("trash", path, FALSE)>>]

\* the entry deleteFile returns and the calls it makes, given whether trash
\* and unlink succeed
deleteFile(path, trashOk, unlinkOk) ==
    IF trashOk
    THEN [entry |-> [path |-> path, method |-> "trash", success |-> TRUE, error |-> NullStr],
          calls |-> <<Call("trash", path, TRUE)>>]
    ELSE IF unlinkOk
    THEN [entry |-> [path |-> path, method |-> "permanent", success |-> TRUE, error |-> NullStr],
          calls |-> <<Call("trash", path, FALSE), Call("unlink", path, TRUE)>>]
    ELSE [entry |-> [path |-> path, method |-> "permanent", success |-> FALSE, error |-> "Unknown error"],
          calls |-> <<Call("trash", path, FALSE), Call("unlink", path, FALSE)>>]

\* one turn of the loop of executeDecisions
DeleteNextFile ==
    /\ exPc = "deleting"
    /\ Len(exEntries) < Len(FilesToDelete(exDecisions.decisions))
    /\ \E trashOk, unlinkOk \in BOOLEAN :
        LET done == deleteFile(FilesToDelete(exDecisions.decisions)[Len(exEntries) + 1], trashOk, unlinkOk)
        IN  /\ exEntries' = Append(exEntries, done.entry)
            /\ exCalls' = exCalls \o done.calls
    /\ UNCHANGED <<exDecisions, exPc, exPrompts, exLog, notEx>>

\* executeDecisions returns and runExecute writes the deletion log
WriteDeletionLog ==
    /\ exPc = "deleting"
    /\ Len(exEntries) = Len(FilesToDelete(exDecisions.decisions))
    /\ exLog' = [exists |-> TRUE, entries |-> exEntries]
    /\ exPc' = "done"
    /\ UNCHANGED <<exDecisions, exPrompts, exEntries, exCalls, notEx>>

ExNext ==
    \/ runAllAsksExecute
    \/ runExecute
    \/ AnswerViewFullList
    \/ AnswerFirstConfirm
    \/ AnswerSecondConfirm
    \/ DeleteNextFile
    \/ WriteDeletionLog

SpecExecute == ExInit /\ [][ExNext]_vars

\* the paths the decisions file marks for deletion, none when there is no file
Marked == IF exDecisions.exists THEN FilesToDelete(exDecisions.decisions) ELSE <<>>

\* the calls of trash and unlink that a list of log entries stands for
RECURSIVE CallsOf(_)
CallsOf(entries) ==
    IF entries = <<>> THEN <<>>
    ELSE LET e == Head(entries)
         IN  (IF e.method = "trash"
              THEN <<Call("trash", e.path, TRUE)>>
              ELSE <<Call("trash", e.path, FALSE), Call("unlink", e.path, e.success)>>)
             \o CallsOf(Tail(entries))

Outcome(prompt) ==
    {exPrompts[k].outcome : k \in {n \in 1..Len(exPrompts) : exPrompts[n].prompt = prompt}}

\* C13: executeDecisions runs, and a deletion log is written, only after the
\* two confirmations were both answered yes, the first before the second, and
\* only when some file is marked for deletion.
C13_BothConfirmationsFirst ==
    (exPc = "deleting" \/ exEntries # <<>> \/ exCalls # <<>> \/ exLog.exists) =>
        /\ Marked # <<>>
        /\ \E i, j \in 1..Len(exPrompts) :
            /\ i < j
            /\ exPrompts[i] = [prompt |-> "first", outcome |-> "yes"]
            /\ exPrompts[j] = [prompt |-> "second", outcome |-> "yes"]
        /\ Outcome("first") = {"yes"}
        /\ Outcome("second") = {"yes"}

\* a run from runAll in which both confirmations were given and files were
\* deleted
C13_Witness ==
    /\ exLog.exists
    /\ exCalls # <<>>
    /\ Len(exPrompts) = 4
    /\ exPrompts[3] = [prompt |-> "first", outcome |-> "yes"]
    /\ exPrompts[4] = [prompt |-> "second", outcome |-> "yes"]

\* ---------------------------------------------------------------------------
\* The scan command: runScan appends a record per file and saves the scan
\* state at checkpoints; the process can be interrupted between two steps.
\* ---------------------------------------------------------------------------

NumFiles == 110
MaxScans == 2

\* if (processed % 100 === 0) saveScanState
CheckpointEvery == 100

\* the audio files ripgrep reports, as file numbers in the order reported
Discovered == [n \in 1..NumFiles |-> n]

\* the files extractMetadata returns null for
Unreadable == {3}

ScanInit ==
    /\ scResults = <<>>
    /\ scStateFile = [exists |-> FALSE]
    /\ scPc = "idle"
    /\ scMem = NoScan
    /\ scRuns = 0
    /\ DupIdle
    /\ ConIdle
    /\ EngIdle
    /\ RevIdle
    /\ ExIdle
    /\ LdIdle
    /\ CxIdle
    /\ FxIdle
    /\ PfIdle
    /\ BgIdle

\* discoveredFiles.filter(path => !existingFiles.has(path))
filesToProcess(existingFiles) == SelectSeq(Discovered, LAMBDA path : path \notin existingFiles)

\* the locals of runScan when it reaches the loop
ScanLocals(existingFiles, state) ==
    [existing |-> existingFiles, atStart |-> existingFiles,
     processedCount |-> state.processedCount, lastProcessedFile |-> state.lastProcessedFile,
     todo |-> filesToProcess(existingFiles), processed |-> 0, extracted |-> <<>>]

FreshState == [processedCount |-> 0, lastProcessedFile |-> 0]

\* runScan from its start to the resume prompt or, without one, to the loop
runScan ==
    /\ scPc \in {"idle", "done", "interrupted"}
    /\ scRuns < MaxScans
    /\ scRuns' = scRuns + 1
    /\ IF scStateFile.exists /\ Range(scResults) # {}
       THEN /\ scPc' = "resume"
            /\ scMem' = [NoScan EXCEPT !.existing = Range(scResults)]
       ELSE /\ scMem' = ScanLocals(Range(scResults), FreshState)
            /\ scPc' = IF filesToProcess(Range(scResults)) = <<>> THEN "done" ELSE "loop"
    /\ UNCHANGED <<scResults, scStateFile, notSc>>

\* the answer to 'Resume previous scan?'; a refusal empties the results file
AnswerResume ==
    /\ scPc = "resume"
    /\ \E shouldResume \in BOOLEAN :
        LET existingFiles == IF shouldResume THEN scMem.existing ELSE {}
            state == IF shouldResume
                     THEN [processedCount |-> scStateFile.processedCount,
                           lastProcessedFile |-> scStateFile.lastProcessedFile]
                     ELSE FreshState
        IN  /\ scResults' = IF shouldResume THEN scResults ELSE <<>>
            /\ scMem' = ScanLocals(existingFiles, state)
            /\ scPc' = IF filesToProcess(existingFiles) = <<>> THEN "done" ELSE "loop"
    /\ UNCHANGED <<scStateFile, scRuns, notSc>>

\* one turn of the loop: extract, append, count, save at a checkpoint
ExtractNext ==
    /\ scPc = "loop"
    /\ scMem.processed < Len(scMem.todo)
    /\ LET filePath == scMem.todo[scMem.processed + 1]
           readable == filePath \notin Unreadable
           existingFiles == IF readable THEN scMem.existing \cup {filePath} ELSE scMem.existing
           processed == scMem.processed + 1
       IN  /\ scResults' = IF readable THEN Append(scResults, filePath) ELSE scResults
           /\ scMem' = [scMem EXCEPT !.existing = existingFiles,
                                     !.processed = processed,
                                     !.processedCount = Cardinality(existingFiles),
                                     !.lastProcessedFile = filePath,
                                     !.extracted = IF readable THEN Append(@, filePath) ELSE @]
           /\ scStateFile' = IF processed % CheckpointEvery = 0
                             THEN [exists |-> TRUE, processedCount |-> Cardinality(existingFiles),
                                   lastProcessedFile |-> filePath]
                             ELSE scStateFile
    /\ UNCHANGED <<scPc, scRuns, notSc>>

\* the save after the loop
FinishScan ==
    /\ scPc = "loop"
    /\ scMem.processed = Len(scMem.todo)
    /\ scStateFile' = [exists |-> TRUE, processedCount |-> scMem.processedCount,
                       lastProcessedFile |-> scMem.lastProcessedFile]
    /\ scPc' = "done"
    /\ UNCHANGED <<scResults, scMem, scRuns, notSc>>

\* the process is stopped at the prompt or between two turns of the loop
InterruptScan ==
    /\ scPc \in {"resume", "loop"}
    /\ scPc' = "interrupted"
    /\ UNCHANGED <<scResults, scStateFile, scMem, scRuns, notSc>>

ScanNext ==
    \/ runScan
    \/ AnswerResume
    \/ ExtractNext
    \/ FinishScan
    \/ InterruptScan

SpecScan == ScanInit /\ [][ScanNext]_vars

\* the processedCount of the saved scan state, 0 when none was saved
SavedCount == IF scStateFile.exists THEN scStateFile.processedCount ELSE 0

\* every record the running or interrupted scan extracted is in the results file
ScanRecordsSaved == Range(scMem.extracted) \subseteq Range(scResults)

\* the saved scan state is at most one checkpoint interval behind the results file
ScanStateClose == Cardinality(Range(scResults)) - SavedCount <= CheckpointEvery

\* a scan extracts no path that was in the results file when it started
ScanNoRepeat == Range(scMem.extracted) \cap scMem.atStart = {}

\* C14: after an interruption at any point, every record extracted is in the
\* results file, the saved scan state is at most 100 processed files behind,
\* and the next scan extracts no path already in the results file.
C14_AtMostOneInterval ==
    /\ ScanRecordsSaved
    /\ ScanStateClose
    /\ ScanNoRepeat

\* ---------------------------------------------------------------------------
\* The loader of the metadata store: loadScannedFiles reads the results file
\* line by line into a Map keyed by path.
\* ---------------------------------------------------------------------------

MaxLines == 3

\* a line of the results file: a record (path and the rest of its content),
\* text JSON.parse throws on, or an empty line
StoreLines ==
    { [kind |-> "record", path |-> "/m/a.mp3", content |-> 1],
      [kind |-> "record", path |-> "/m/a.mp3", content |-> 2],
      [kind |-> "record", path |-> "/m/b.mp3", content |-> 1],
      [kind |-> "corrupt", path |-> "", content |-> 0],
      [kind |-> "empty", path |-> "", content |-> 0] }

LoadInit ==
    /\ ldLines \in UNION {[1..n -> StoreLines] : n \in 0..MaxLines}
    /\ ldFiles = <<>>
    /\ ldPc = "idle"
    /\ DupIdle
    /\ ConIdle
    /\ EngIdle
    /\ RevIdle
    /\ ExIdle
    /\ ScIdle
    /\ CxIdle
    /\ FxIdle
    /\ PfIdle
    /\ BgIdle

\* files.set(path, metadata); loaded is the Map called files
MapSet(loaded, path, metadata) ==
    [p \in DOMAIN loaded \cup {path} |-> IF p = path THEN metadata ELSE loaded[p]]

\* the for loop inside the try: the first throw of JSON.parse leaves the loop
\* and the catch returns the Map as it is
RECURSIVE ParseLines(_, _)
ParseLines(lines, loaded) ==
    IF lines = <<>> THEN loaded
    ELSE IF Head(lines).kind = "corrupt" THEN loaded
    ELSE ParseLines(Tail(lines), MapSet(loaded, Head(lines).path, Head(lines).content))

\* data.split('\n').filter(Boolean), then the loop
loadScannedFiles(lines) ==
    ParseLines(SelectSeq(lines, LAMBDA line : line.kind # "empty"), <<>>)

LoadStore ==
    /\ ldPc = "idle"
    /\ ldFiles' = loadScannedFiles(ldLines)
    /\ ldPc' = "loaded"
    /\ UNCHANGED <<ldLines, notLd>>

LoadNext == LoadStore

SpecLoad == LoadInit /\ [][LoadNext]_vars

\* the line is a record and no later line is a record of the same path
LastOfPath(k) ==
    /\ ldLines[k].kind = "record"
    /\ \A j \in (k + 1)..Len(ldLines) :
          ldLines[j].kind = "record" => ldLines[j].path # ldLines[k].path

\* C23: the loader skips an unparseable line and goes on: every well-formed
\* record before and after it is loaded, the last record of a path winning.
C23_SkipsCorruptLine ==
    ldPc = "loaded" =>
        \A k \in 1..Len(ldLines) :
            LastOfPath(k) =>
                /\ ldLines[k].path \in DOMAIN ldFiles
                /\ ldFiles[ldLines[k].path] = ldLines[k].content

\* ---------------------------------------------------------------------------
\* executeDecisions with consolidation: the kept files that need it are copied
\* to destinationDir, then the delete lists and the copied sources are deleted.
\* ---------------------------------------------------------------------------

ConsolidateDir == "/dest"

Consolidation(keep, delete, copy) ==
    [keep |-> <<keep>>, delete |-> delete, copyToDestination |-> copy]

\* decisions of the ordered-rule engine for the destination /dest
ConsolidationPool ==
    { Consolidation("/a/s.mp3", <<"/b/s.mp3">>, TRUE),
      Consolidation("/c/s.mp3", <<"/d/r.mp3">>, TRUE),
      Consolidation("/a/t.mp3", <<"/dest/t.mp3">>, TRUE),
      Consolidation("/dest/u.mp3", <<"/a/u.mp3">>, FALSE),
      Consolidation("/x/v.mp3", <<"/a/s.mp3">>, TRUE) }

ConsolidationLists ==
    UNION {[1..n -> ConsolidationPool] : n \in 0..MaxExecDecisions}

PathsOf(decisions) ==
    UNION {Range(decisions[k].keep) \cup Range(decisions[k].delete) : k \in 1..Len(decisions)}

\* every file a decision names is on disk, with its own content
DiskOf(decisions) == [path \in PathsOf(decisions) |-> path]

ConsolidateInit ==
    /\ cxDecisions \in ConsolidationLists
    /\ cxDisk = DiskOf(cxDecisions)
    /\ cxCopies = <<>>
    /\ cxDeletions = <<>>
    /\ cxPc = "running"
    /\ DupIdle
    /\ ConIdle
    /\ EngIdle
    /\ RevIdle
    /\ ExIdle
    /\ ScIdle
    /\ LdIdle
    /\ FxIdle
    /\ PfIdle
    /\ BgIdle

\* decisions.filter(d => d.copyToDestination && d.keep.length > 0)
needsCopy(decisions) == SelectSeq(decisions, LAMBDA d : d.copyToDestination /\ Len(d.keep) > 0)

\* join(destinationDir, basename(sourcePath))
destPath(sourcePath, destinationDir) == destinationDir \o "/" \o basename(sourcePath)

\* the entry copyFileToDestination returns
copyFileToDestination(sourcePath, destinationDir, copyOk) ==
    [source |-> sourcePath, destination |-> destPath(sourcePath, destinationDir), success |-> copyOk]

\* copyFile overwrites a file that is already at the destination
Copied(disk, entry) ==
    IF entry.success
    THEN [p \in DOMAIN disk \cup {entry.destination} |->
              IF p = entry.destination THEN disk[entry.source] ELSE disk[p]]
    ELSE disk

\* one turn of the copy loop
CopyNext ==
    /\ cxPc = "running"
    /\ Len(cxCopies) < Len(needsCopy(cxDecisions))
    /\ \E copyOk \in BOOLEAN :
        LET sourcePath == needsCopy(cxDecisions)[Len(cxCopies) + 1].keep[1]
            entry == copyFileToDestination(sourcePath, ConsolidateDir,
                                           copyOk /\ sourcePath \in DOMAIN cxDisk)
        IN  /\ cxCopies' = Append(cxCopies, entry)
            /\ cxDisk' = Copied(cxDisk, entry)
    /\ UNCHANGED <<cxDecisions, cxDeletions, cxPc, notCx>>

successfulCopySources(copies) == {copies[k].source : k \in {n \in 1..Len(copies) : copies[n].success}}

\* mutant: the delete lists are not filtered for sources of failed copies
filesToDeleteUnfiltered(decisions, copies) == FilesToDelete(decisions)

\* allDeletes without the kept files whose copy failed
filesToDelete(decisions, copies) ==
    SelectSeq(FilesToDelete(decisions),
              LAMBDA path : ~\E k \in 1..Len(needsCopy(decisions)) :
                                /\ needsCopy(decisions)[k].keep[1] = path
                                /\ path \notin successfulCopySources(copies))

\* the kept files that were copied
sourceFilesToDelete(decisions, copies) ==
    LET copied == SelectSeq(needsCopy(decisions),
                            LAMBDA d : d.keep[1] \in successfulCopySources(copies))
    IN  [k \in 1..Len(copied) |-> copied[k].keep[1]]

allFilesToDelete(decisions, copies) ==
    filesToDelete(decisions, copies) \o sourceFilesToDelete(decisions, copies)

Removed(disk, path) == [p \in DOMAIN disk \ {path} |-> disk[p]]

\* one turn of the deletion loop; a file that is not on disk can be neither
\* moved to trash nor unlinked
ConsolidateDeleteNext ==
    /\ cxPc = "running"
    /\ Len(cxCopies) = Len(needsCopy(cxDecisions))
    /\ Len(cxDeletions) < Len(allFilesToDelete(cxDecisions, cxCopies))
    /\ \E trashOk, unlinkOk \in BOOLEAN :
        LET path == allFilesToDelete(cxDecisions, cxCopies)[Len(cxDeletions) + 1]
            done == deleteFile(path, trashOk /\ path \in DOMAIN cxDisk,
                               unlinkOk /\ path \in DOMAIN cxDisk)
        IN  /\ cxDeletions' = Append(cxDeletions, done.entry)
            /\ cxDisk' = IF done.entry.success THEN Removed(cxDisk, path) ELSE cxDisk
    /\ UNCHANGED <<cxDecisions, cxCopies, cxPc, notCx>>

\* executeDecisions returns the log
ConsolidateReturns ==
    /\ cxPc = "running"
    /\ Len(cxCopies) = Len(needsCopy(cxDecisions))
    /\ Len(cxDeletions) = Len(allFilesToDelete(cxDecisions, cxCopies))
    /\ cxPc' = "done"
    /\ UNCHANGED <<cxDecisions, cxDisk, cxCopies, cxDeletions, notCx>>

ConsolidateNext ==
    \/ CopyNext
    \/ ConsolidateDeleteNext
    \/ ConsolidateReturns

SpecConsolidate == ConsolidateInit /\ [][ConsolidateNext]_vars

\* the kept files of the decisions that ask for a copy
CopySources == {needsCopy(cxDecisions)[k].keep[1] : k \in 1..Len(needsCopy(cxDecisions))}

CopySucceeded(path) == \E k \in 1..Len(cxCopies) : cxCopies[k].source = path /\ cxCopies[k].success

DeleteTried(path) == \E k \in 1..Len(cxDeletions) : cxDeletions[k].path = path

C27_KeptFileSurvives ==
    cxPc = "done" =>
        \A path \in CopySources :
            path \notin DOMAIN cxDisk =>
                /\ destPath(path, ConsolidateDir) \in DOMAIN cxDisk
                /\ cxDisk[destPath(path, ConsolidateDir)] = path

\* ---------------------------------------------------------------------------
\* The fix-metadata command: runFixMetadata lists the records with no artist
\* or no title, asks whether to resume a saved state, runs the interactive
\* loop, saves the state and writes the edited records back.  The loop is
\* taken one prompt at a time; the inference shown with a prompt changes
\* neither the index nor the state.
\* ---------------------------------------------------------------------------

NumFixFiles == 3
MaxFixRuns == 3

FixPaths == <<"/f/1.mp3", "/f/2.mp3", "/f/3.mp3", "/f/4.mp3", "/f/5.mp3">>

\* the scan results: every record with or without artist and title
FixScans ==
    {[k \in 1..n |-> [path |-> FixPaths[k], missing |-> flags[k]]] :
        n \in {NumFixFiles}, flags \in [1..NumFixFiles -> BOOLEAN]}

FixInit ==
    /\ fxScan \in FixScans
    /\ fxStateFile = [exists |-> FALSE]
    /\ fxPc = "idle"
    /\ fxList = <<>>
    /\ fxI = 0
    /\ fxLast = 0
    /\ fxUpdated = <<>>
    /\ fxShown = <<>>
    /\ fxDone = {}
    /\ fxDoneBefore = {}
    /\ fxQuitAt = NullStr
    /\ fxResumed = FALSE
    /\ fxRuns = 0
    /\ DupIdle
    /\ ConIdle
    /\ EngIdle
    /\ RevIdle
    /\ ExIdle
    /\ ScIdle
    /\ LdIdle
    /\ CxIdle
    /\ PfIdle
    /\ BgIdle

\* the paths of the records with no artist or no title, in file order
findFilesWithMissingMetadata(scan) ==
    LET missing == SelectSeq(scan, LAMBDA f : f.missing)
    IN  [k \in 1..Len(missing) |-> missing[k].path]

\* the lines of the scan results with the updated records in place
UpdatedScan(scan, updatedFiles) ==
    [k \in 1..Len(scan) |->
        IF scan[k].path \in DOMAIN updatedFiles
        THEN [scan[k] EXCEPT !.missing = updatedFiles[scan[k].path]]
        ELSE scan[k]]

\* fixMetadataInteractive has returned: saveFixState, then the scan results
\* are rewritten when a record was updated
FixReturns(lastProcessedIndex, updatedFiles, quitAt) ==
    /\ fxStateFile' = [exists |-> TRUE, lastProcessedIndex |-> lastProcessedIndex]
    /\ fxScan' = IF DOMAIN updatedFiles # {} THEN UpdatedScan(fxScan, updatedFiles) ELSE fxScan
    /\ fxLast' = lastProcessedIndex
    /\ fxUpdated' = updatedFiles
    /\ fxQuitAt' = quitAt
    /\ fxPc' = "idle"

\* fixMetadataInteractive up to its first prompt, or to its end when the
\* loop has nothing to run over
fixMetadataInteractive(filesWithMissing, startIndex, resumed) ==
    /\ fxList' = filesWithMissing
    /\ fxI' = startIndex
    /\ fxResumed' = resumed
    /\ fxDoneBefore' = IF resumed THEN fxDone ELSE {}
    /\ IF startIndex < Len(filesWithMissing)
       THEN /\ fxPc' = "prompt"
            /\ fxLast' = startIndex
            /\ fxUpdated' = <<>>
            /\ fxShown' = <<filesWithMissing[startIndex + 1]>>
            /\ fxDone' = IF resumed THEN fxDone ELSE {}
            /\ UNCHANGED <<fxScan, fxQuitAt>>
            /\ fxStateFile' = IF resumed THEN fxStateFile ELSE
                                 IF fxPc = "resume" THEN [exists |-> TRUE, lastProcessedIndex |-> NullNum]
                                 ELSE fxStateFile
       ELSE /\ fxShown' = <<>>
            /\ fxDone' = IF resumed THEN fxDone ELSE {}
            /\ FixReturns(startIndex, <<>>, IF resumed THEN fxQuitAt ELSE NullStr)

\* runFixMetadata up to the resume question or the first prompt
runFixMetadata ==
    /\ fxPc = "idle"
    /\ fxRuns < MaxFixRuns
    /\ fxRuns' = fxRuns + 1
    /\ IF Len(fxScan) = 0 \/ findFilesWithMissingMetadata(fxScan) = <<>>
       THEN UNCHANGED <<fxScan, fxStateFile, fxPc, fxList, fxI, fxLast, fxUpdated, fxShown,
                        fxDone, fxDoneBefore, fxQuitAt, fxResumed>>
       ELSE IF fxStateFile.exists /\ fxStateFile.lastProcessedIndex > 0
            THEN /\ fxPc' = "resume"
                 /\ fxList' = findFilesWithMissingMetadata(fxScan)
                 /\ UNCHANGED <<fxScan, fxStateFile, fxI, fxLast, fxUpdated, fxShown, fxDone,
                                fxDoneBefore, fxQuitAt, fxResumed>>
            ELSE fixMetadataInteractive(findFilesWithMissingMetadata(fxScan), 0, FALSE)
    /\ UNCHANGED notFx

\* the answer to 'Resume from where you left off?'
AnswerResumeFix ==
    /\ fxPc = "resume"
    /\ \E shouldResume \in BOOLEAN :
          IF shouldResume
          THEN fixMetadataInteractive(fxList, fxStateFile.lastProcessedIndex, TRUE)
          ELSE fixMetadataInteractive(fxList, 0, FALSE)
    /\ UNCHANGED fxRuns
    /\ UNCHANGED notFx

FixActions == {"quit", "skip", "edit", "edit-partial", "write-fails"}

\* updatedFiles.set(file.path, updatedFile): the record still lacks artist or
\* title when the edit left one of them empty
UpdatedFiles(updatedFiles, path, missing) ==
    [q \in DOMAIN updatedFiles \cup {path} |-> IF q = path THEN missing ELSE updatedFiles[q]]

\* the loop goes to its next turn, or ends
NextTurn(updatedFiles) ==
    /\ fxDone' = fxDone \cup {fxList[fxI + 1]}
    /\ fxI' = fxI + 1
    /\ IF fxI + 1 < Len(fxList)
       THEN /\ fxLast' = fxI + 1
            /\ fxUpdated' = updatedFiles
            /\ fxShown' = Append(fxShown, fxList[fxI + 2])
            /\ UNCHANGED <<fxScan, fxStateFile, fxPc, fxQuitAt>>
       ELSE /\ FixReturns(fxI + 1, updatedFiles, NullStr)
            /\ UNCHANGED fxShown

\* the answer to promptForMetadata for the file at index i
AnswerFix ==
    /\ fxPc = "prompt"
    /\ \E action \in FixActions :
          IF action = "quit"
          THEN /\ FixReturns(fxI, fxUpdated, fxList[fxI + 1])
               /\ UNCHANGED <<fxI, fxShown, fxDone>>
          ELSE IF action = "edit" THEN NextTurn(UpdatedFiles(fxUpdated, fxList[fxI + 1], FALSE))
          ELSE IF action = "edit-partial" THEN NextTurn(UpdatedFiles(fxUpdated, fxList[fxI + 1], TRUE))
          ELSE NextTurn(fxUpdated)
    /\ UNCHANGED <<fxList, fxDoneBefore, fxResumed, fxRuns>>
    /\ UNCHANGED notFx

FixNext ==
    \/ runFixMetadata
    \/ AnswerResumeFix
    \/ AnswerFix

SpecFix == FixInit /\ [][FixNext]_vars

\* a run that resumed a state saved by a quit
ResumedAfterQuit == fxResumed /\ fxQuitAt # NullStr /\ fxPc = "prompt"

\* C25: a session that was quit and is resumed restarts where it left off:
\* the first file presented is the file at which the user quit, no file
\* answered before the quit is presented again, and no file that still lacks
\* artist or title and was not answered yet is passed over, also when edited
\* records have been written back to the scan results.
C25_ResumeWhereLeftOff ==
    ResumedAfterQuit =>
        /\ fxShown[1] = fxQuitAt
        /\ Range(fxShown) \cap fxDoneBefore = {}
        /\ \A k \in 1..Len(fxList) :
              (k <= fxI /\ fxList[k] \notin fxDoneBefore) => fxList[k] \in Range(fxShown)

\* ---------------------------------------------------------------------------
\* fixMetadataInteractive, prefetching variant: prefetchNext keeps up to
\* PARALLEL_FETCHES calls of fetchFile pending while the loop prompts for one
\* file after the other.  Every callback runs to its next await in one step.
\* fetchFile always resolves: inferMetadata catches every failure of the
\* inference and returns the result parsed from the file name.
\* ---------------------------------------------------------------------------

NumPrefetchFiles == 7
PARALLEL_FETCHES == 5

\* what a fetch can resolve with
FetchSources == {"ai", "fallback"}

PrefetchInit ==
    /\ pfStart \in {0, 2, NumPrefetchFiles}
    /\ pfFetcherIndex = 0
    /\ pfInFlight = {}
    /\ pfOwn = FALSE
    /\ pfFetched = <<>>
    /\ pfI = 0
    /\ pfPc = "start"
    /\ pfShown = <<>>
    /\ pfStarted = <<>>
    /\ DupIdle
    /\ ConIdle
    /\ EngIdle
    /\ RevIdle
    /\ ExIdle
    /\ ScIdle
    /\ LdIdle
    /\ CxIdle
    /\ FxIdle
    /\ BgIdle

Prefetcher(fetcherIndex, inFlight, started) ==
    [fetcherIndex |-> fetcherIndex, inFlight |-> inFlight, started |-> started]

\* mutant: the loop of prefetchNext tests the size with <=
RECURSIVE prefetchNextLoose(_)
prefetchNextLoose(pf) ==
    IF Cardinality(pf.inFlight) <= PARALLEL_FETCHES /\ pf.fetcherIndex < NumPrefetchFiles
    THEN prefetchNextLoose(Prefetcher(pf.fetcherIndex + 1, pf.inFlight \cup {pf.fetcherIndex},
                                      Append(pf.started, pf.fetcherIndex)))
    ELSE pf

\* the while loop of prefetchNext
RECURSIVE prefetchNext(_)
prefetchNext(pf) ==
    IF Cardinality(pf.inFlight) < PARALLEL_FETCHES /\ pf.fetcherIndex < NumPrefetchFiles
    THEN prefetchNext(Prefetcher(pf.fetcherIndex + 1, pf.inFlight \cup {pf.fetcherIndex},
                                 Append(pf.started, pf.fetcherIndex)))
    ELSE pf

Shown(i, fetched) == [index |-> i, result |-> fetched]

\* the loop from the top of turn i to its next await
LoopTurn(i, fetchedResults, inFlight) ==
    /\ pfI' = i
    /\ IF i >= NumPrefetchFiles
       THEN pfPc' = "done" /\ UNCHANGED <<pfShown, pfOwn>>
       ELSE IF i \in DOMAIN fetchedResults
       THEN pfPc' = "prompt" /\ pfShown' = Append(pfShown, Shown(i, fetchedResults[i]))
                             /\ UNCHANGED pfOwn
       ELSE IF i \in inFlight
       THEN pfPc' = "waiting" /\ UNCHANGED <<pfShown, pfOwn>>
       ELSE pfPc' = "analyzing" /\ pfOwn' = TRUE /\ UNCHANGED pfShown

\* the call: prefetchNext(), then the first turn of the loop
StartPrefetching ==
    /\ pfPc = "start"
    /\ LET pf == prefetchNext(Prefetcher(pfStart, {}, <<>>))
       IN  /\ pfFetcherIndex' = pf.fetcherIndex
           /\ pfInFlight' = pf.inFlight
           /\ pfStarted' = pf.started
           /\ LoopTurn(pfStart, pfFetched, pf.inFlight)
    /\ UNCHANGED <<pfStart, pfFetched>>
    /\ UNCHANGED notPf

\* fetchFile(files[idx]) resolves
FetchResult(idx, source) == [index |-> idx, source |-> source]

\* a pending fetch resolves: the .then callback of the prefetcher, or the
\* loop's own fetch, after which the loop prompts
FetchResolves ==
    /\ \E idx \in pfInFlight \cup (IF pfOwn THEN {NumPrefetchFiles + pfI} ELSE {}) :
       \E source \in FetchSources :
          IF idx \in pfInFlight
          THEN LET pf == prefetchNext(Prefetcher(pfFetcherIndex, pfInFlight \ {idx}, pfStarted))
               IN  /\ pfFetched' = [j \in DOMAIN pfFetched \cup {idx} |->
                                       IF j = idx THEN FetchResult(idx, source) ELSE pfFetched[j]]
                   /\ pfFetcherIndex' = pf.fetcherIndex
                   /\ pfInFlight' = pf.inFlight
                   /\ pfStarted' = pf.started
                   /\ UNCHANGED <<pfOwn, pfPc, pfShown>>
          ELSE /\ pfOwn' = FALSE
               /\ pfPc' = "prompt"
               /\ pfShown' = Append(pfShown, Shown(pfI, FetchResult(pfI, source)))
               /\ UNCHANGED <<pfFetched, pfFetcherIndex, pfInFlight, pfStarted>>
    /\ UNCHANGED <<pfStart, pfI>>
    /\ UNCHANGED notPf

\* the promise the loop awaits has resolved: the loop goes on to the prompt
LoopResumes ==
    /\ pfPc = "waiting"
    /\ pfI \in DOMAIN pfFetched
    /\ pfPc' = "prompt"
    /\ pfShown' = Append(pfShown, Shown(pfI, pfFetched[pfI]))
    /\ UNCHANGED <<pfStart, pfFetcherIndex, pfInFlight, pfOwn, pfFetched, pfI, pfStarted>>
    /\ UNCHANGED notPf

Without(fetchedResults, i) == [j \in DOMAIN fetchedResults \ {i} |-> fetchedResults[j]]

\* the answer to promptForMetadata
AnswerMetadataPrompt ==
    /\ pfPc = "prompt"
    /\ pfFetched' = Without(pfFetched, pfI)
    /\ \E action \in {"quit", "skip", "edit"} :
          IF action = "quit" THEN pfPc' = "done" /\ UNCHANGED <<pfI, pfShown, pfOwn>>
          ELSE IF action = "skip" THEN LoopTurn(pfI + 1, Without(pfFetched, pfI), pfInFlight)
          ELSE pfPc' = "writing" /\ UNCHANGED <<pfI, pfShown, pfOwn>>
    /\ UNCHANGED <<pfStart, pfFetcherIndex, pfInFlight, pfStarted>>
    /\ UNCHANGED notPf

\* writeMetadata has settled; a failed write is caught and the loop goes on
WriteSettles ==
    /\ pfPc = "writing"
    /\ LoopTurn(pfI + 1, pfFetched, pfInFlight)
    /\ UNCHANGED <<pfStart, pfFetcherIndex, pfInFlight, pfFetched, pfStarted>>
    /\ UNCHANGED notPf

PrefetchNext ==
    \/ StartPrefetching
    \/ FetchResolves
    \/ LoopResumes
    \/ AnswerMetadataPrompt
    \/ WriteSettles

SpecPrefetch == PrefetchInit /\ [][PrefetchNext]_vars

\* fetches pending: the prefetcher's and the loop's own
PendingFetches == Cardinality(pfInFlight) + (IF pfOwn THEN 1 ELSE 0)

\* C28: at most 5 fetches are pending at any time, the prefetcher starts a
\* fetch for each index at most once, and the files are prompted in
\* increasing index order from startIndex, each with the result fetched for
\* its own index.
C28_BoundedOrderedPrefetch ==
    /\ PendingFetches <= PARALLEL_FETCHES
    /\ \A j, k \in 1..Len(pfStarted) : j # k => pfStarted[j] # pfStarted[k]
    /\ \A k \in 1..Len(pfShown) :
          /\ pfShown[k].index = pfStart + k - 1
          /\ pfShown[k].result.index = pfShown[k].index

\* the loop waits for the fetch of its file while five fetches are pending
\* and a later file's result is already there
C28_Witness ==
    /\ pfPc = "waiting"
    /\ Cardinality(pfInFlight) = PARALLEL_FETCHES
    /\ Len(pfShown) >= 1
    /\ \E j \in DOMAIN pfFetched : j > pfI

\* ---------------------------------------------------------------------------
\* fixMetadataInteractive, background-batch variant: the files from startIndex
\* on are split into batches of BATCH_SIZE, the first batch is awaited, the
\* others run in the background, and the loop polls inferredResults every
\* 500 ms until it has the index of its file.
\* ---------------------------------------------------------------------------

NumBatchFiles == 22
BATCH_SIZE == 20

BatchInit ==
    /\ bgStart \in {0, 1, NumBatchFiles}
    /\ bgPc = "start"
    /\ bgI = 0
    /\ bgResults = <<>>
    /\ bgPending = {}
    /\ bgCompleted = 0
    /\ bgShown = <<>>
    /\ DupIdle
    /\ ConIdle
    /\ EngIdle
    /\ RevIdle
    /\ ExIdle
    /\ ScIdle
    /\ LdIdle
    /\ CxIdle
    /\ FxIdle
    /\ PfIdle

\* batches.length for filesWithMissing.slice(startIndex)
BatchCount(startIndex) ==
    IF startIndex >= NumBatchFiles THEN 0
    ELSE ((NumBatchFiles - startIndex) + BATCH_SIZE - 1) \div BATCH_SIZE

\* the indexes of batches[b - 1]
BatchIndexes(startIndex, b) ==
    {i \in 0..(NumBatchFiles - 1) :
        /\ i >= startIndex + (b - 1) * BATCH_SIZE
        /\ i < startIndex + b * BATCH_SIZE}

\* what inferMetadataBatch can resolve with: a result for every index of the
\* batch, from the response or from the file names when the call or the
\* parsing failed, or the items of a response that leaves out one index or
\* every index
inferMetadataBatch(indexes) ==
    {[i \in indexes |-> "ai"], [i \in indexes |-> "fallback"], [i \in {} |-> "ai"]}
    \cup {[i \in indexes \ {omitted} |-> "ai"] : omitted \in indexes}

\* for (const [idx, result] of batchResults) inferredResults.set(idx, result)
SetAll(inferredResults, batchResults) ==
    [i \in DOMAIN inferredResults \cup DOMAIN batchResults |->
        IF i \in DOMAIN batchResults THEN batchResults[i] ELSE inferredResults[i]]

\* the loop from the top of turn i to its next await
BatchLoopTurn(i, inferredResults) ==
    /\ bgI' = i
    /\ IF i >= NumBatchFiles THEN bgPc' = "joining" /\ UNCHANGED bgShown
       ELSE IF i \in DOMAIN inferredResults
       THEN bgPc' = "prompt" /\ bgShown' = Append(bgShown, [index |-> i, source |-> inferredResults[i]])
       ELSE bgPc' = "polling" /\ UNCHANGED bgShown

\* the call up to await processBatch(0); with no file left batches is empty
\* and reading batches[0].length throws
StartBatches ==
    /\ bgPc = "start"
    /\ IF BatchCount(bgStart) = 0
       THEN bgPc' = "crashed" /\ UNCHANGED bgPending
       ELSE bgPc' = "first-batch" /\ bgPending' = {1}
    /\ UNCHANGED <<bgStart, bgI, bgResults, bgCompleted, bgShown>>
    /\ UNCHANGED notBg

\* inferMetadataBatch resolves for a pending batch; after the first batch the
\* function starts the other batches and enters the loop
BatchCompletes ==
    /\ \E b \in bgPending :
       \E batchResults \in inferMetadataBatch(BatchIndexes(bgStart, b)) :
          /\ bgResults' = SetAll(bgResults, batchResults)
          /\ bgCompleted' = bgCompleted + 1
          /\ IF bgPc = "first-batch"
             THEN /\ bgPending' = 2..BatchCount(bgStart)
                  /\ BatchLoopTurn(bgStart, SetAll(bgResults, batchResults))
             ELSE /\ bgPending' = bgPending \ {b}
                  /\ UNCHANGED <<bgPc, bgI, bgShown>>
    /\ UNCHANGED bgStart
    /\ UNCHANGED notBg

\* the 500 ms timer fires and the loop tests inferredResults.has(i) again
PollWakes ==
    /\ bgPc = "polling"
    /\ IF bgI \in DOMAIN bgResults
       THEN bgPc' = "prompt" /\ bgShown' = Append(bgShown, [index |-> bgI, source |-> bgResults[bgI]])
       ELSE UNCHANGED <<bgPc, bgShown>>
    /\ UNCHANGED <<bgStart, bgI, bgResults, bgPending, bgCompleted>>
    /\ UNCHANGED notBg

\* the answer to promptForMetadata
AnswerBatchPrompt ==
    /\ bgPc = "prompt"
    /\ \E action \in {"quit", "skip", "edit"} :
          IF action = "quit" THEN bgPc' = "joining" /\ UNCHANGED <<bgI, bgShown>>
          ELSE IF action = "skip" THEN BatchLoopTurn(bgI + 1, bgResults)
          ELSE bgPc' = "writing" /\ UNCHANGED <<bgI, bgShown>>
    /\ UNCHANGED <<bgStart, bgResults, bgPending, bgCompleted>>
    /\ UNCHANGED notBg

\* writeMetadata has settled; a failed write is caught and the loop goes on
BatchWriteSettles ==
    /\ bgPc = "writing"
    /\ BatchLoopTurn(bgI + 1, bgResults)
    /\ UNCHANGED <<bgStart, bgResults, bgPending, bgCompleted>>
    /\ UNCHANGED notBg

\* await Promise.all(batchPromises), then the function returns
BatchesJoined ==
    /\ bgPc = "joining"
    /\ bgPending = {}
    /\ bgPc' = "done"
    /\ UNCHANGED <<bgStart, bgI, bgResults, bgPending, bgCompleted, bgShown>>
    /\ UNCHANGED notBg

BatchNext ==
    \/ StartBatches
    \/ BatchCompletes
    \/ PollWakes
    \/ AnswerBatchPrompt
    \/ BatchWriteSettles
    \/ BatchesJoined

SpecBatch == BatchInit /\ [][BatchNext]_vars

\* every call of inferMetadataBatch settles (runClaude has a timeout), every
\* timer fires, and the function runs on when what it awaits has settled; the
\* user is not bound to answer
SpecBatchFair ==
    /\ SpecBatch
    /\ WF_vars(StartBatches)
    /\ WF_vars(BatchCompletes)
    /\ WF_vars(PollWakes)
    /\ WF_vars(BatchWriteSettles)
    /\ WF_vars(BatchesJoined)

\* C29: the review loop never waits forever: for every file index from
\* startIndex on, whatever the batches return, a loop that waits for the
\* inference of that file eventually reaches the prompt for it.
C29_NeverWaitsForever ==
    \A i \in 0..NumBatchFiles :
        (bgPc = "polling" /\ bgI = i) ~> (bgPc = "prompt" /\ bgI = i)

====
